---- MODULE Spec2Model ----
(***************************************************************************)
(* Asynchronous delivery subsystem of the URL shortener: the multi-client  *)
(* registry (MultiClientManager), the ledger of unacknowledged messages    *)
(* (MessageHandler), the retry sweep (RetryHandler) and the facade          *)
(* (WebSocketManagerService).  Node.js runs every handler to completion,   *)
(* so each event handler, timer callback and public call is one action.    *)
(* Times are milliseconds, as in the source.                               *)
(***************************************************************************)
EXTENDS Integers, Sequences, FiniteSets, TLC

\* ------------------------------------------------------------------ bounds
MaxClients == 2
MaxMsgs == 2
MaxTicks == 1
MaxIdleSteps == 1
MaxCalls == 2
MaxCodes == 2
MaxSendCalls == 6

\* --------------------------------------------------------------- constants
DEFAULT_RETRY_CONFIG == [maxAttempts |-> 5, retryDelay |-> 30000, checkInterval |-> 5000]

\* Configurations a RetryHandler is constructed with: the default, the
\* immediate-retry configuration (2 attempts, no delay) and a single attempt.
RetryConfigs ==
    { DEFAULT_RETRY_CONFIG,
      [maxAttempts |-> 2, retryDelay |-> 0, checkInterval |-> 5000],
      [maxAttempts |-> 1, retryDelay |-> 30000, checkInterval |-> 5000] }

HEARTBEAT_INTERVAL == 30000
InactiveLimit == 300000

\* The clock advances in steps of one default retry delay.
ClockSteps == { DEFAULT_RETRY_CONFIG.retryDelay }
MaxTime == MaxTicks * DEFAULT_RETRY_CONFIG.retryDelay

NULL == "NULL"
UnknownId == 0
Undefined == -1
Null == -2
SessionIds == {"s1"}
Urls == {"http://x/abc1234567"}

OPEN == "OPEN"
CLOSING == "CLOSING"
CLOSED == "CLOSED"

VARIABLES
    clients,            \* MultiClientManager.clients: id -> [id, lastActivity]
    ws,                 \* the transports ever connected, by channel id
    heartbeatInterval,  \* MultiClientManager.heartbeatInterval is armed
    pendingMessages,    \* MessageHandler.pendingMessages
    clientSessionMap,   \* WebSocketManagerService.clientSessionMap
    retryInterval,      \* RetryHandler.retryInterval is armed
    config,             \* RetryHandler.config
    wssOpen,            \* the WebSocketServer is listening
    now,                \* the clock (new Date())
    msgLog,             \* history, per message id: the transport send calls
                        \* made for it and why it left the ledger
    storage,            \* UrlStorageService.storage: code -> the call whose
                        \* mapping is stored under it
    calls,              \* the shortenUrl calls, each with its position
    single              \* the single-client WebSocketManagerService: its
                        \* fields, the transports ever connected, its clock
                        \* and, per message id, the transport send calls made

deliveryVars == <<clients, ws, heartbeatInterval, pendingMessages, clientSessionMap,
                  retryInterval, config, wssOpen, now, msgLog>>

urlVars == <<storage, calls>>

singleVars == <<single>>

vars == <<deliveryVars, urlVars, singleVars>>

\* ------------------------------------------------------- MultiClientManager
Registered == DOMAIN clients

RECURSIVE SortedSeq(_)
SortedSeq(S) ==
    IF S = {} THEN <<>>
    ELSE LET m == CHOOSE x \in S : \A y \in S : x <= y
         IN <<m>> \o SortedSeq(S \ {m})

\* Object.values(this.clients): insertion order, ids are handed out in order
getAllClients(cl) == SortedSeq(DOMAIN cl)

getClientCount(cl) == Cardinality(DOMAIN cl)

\* mutant: for an id that is not registered the registry is emptied
removeClient_clearOnMiss(cl, clientId) ==
    IF clientId \in DOMAIN cl
    THEN [c \in (DOMAIN cl) \ {clientId} |-> cl[c]]
    ELSE <<>>

removeClient(cl, clientId) ==
    IF clientId \in DOMAIN cl
    THEN [c \in (DOMAIN cl) \ {clientId} |-> cl[c]]
    ELSE cl

\* mutant: activity on an id that is not registered creates its entry
updateClientActivity_upsert(cl, clientId, t) ==
    [c \in (DOMAIN cl) \cup {clientId} |-> [id |-> c, lastActivity |->
        IF c = clientId THEN t ELSE cl[c].lastActivity]]

updateClientActivity(cl, clientId, t) ==
    IF clientId \in DOMAIN cl
    THEN [cl EXCEPT ![clientId].lastActivity = t]
    ELSE cl

getClient(cl, clientId) == IF clientId \in DOMAIN cl THEN cl[clientId] ELSE NULL

\* mutant: the readyState test is left out
hasClient_registeredOnly(cl, clientId) == clientId \in DOMAIN cl

hasClient(cl, clientId) ==
    clientId \in DOMAIN cl /\ ws[clientId].readyState = OPEN

\* mutant: the catch clause logs the failure but does not evict the channel
sendToClient_noEvict(cl, clientId, throws) ==
    IF clientId \notin DOMAIN cl \/ ws[clientId].readyState # OPEN
    THEN [clients |-> cl, success |-> FALSE, called |-> FALSE, threw |-> FALSE,
          raised |-> FALSE]
    ELSE IF throws
         THEN [clients |-> cl, success |-> FALSE,
               called |-> TRUE, threw |-> TRUE, raised |-> FALSE]
         ELSE [clients |-> updateClientActivity(cl, clientId, now), success |-> TRUE,
               called |-> TRUE, threw |-> FALSE, raised |-> FALSE]

\* mutant: no try/catch around websocket.send, the exception propagates
sendToClient_rethrow(cl, clientId, throws) ==
    IF clientId \notin DOMAIN cl \/ ws[clientId].readyState # OPEN
    THEN [clients |-> cl, success |-> FALSE, called |-> FALSE, threw |-> FALSE,
          raised |-> FALSE]
    ELSE IF throws
         THEN [clients |-> cl, success |-> FALSE,
               called |-> TRUE, threw |-> TRUE, raised |-> TRUE]
         ELSE [clients |-> updateClientActivity(cl, clientId, now), success |-> TRUE,
               called |-> TRUE, threw |-> FALSE, raised |-> FALSE]

\* websocket.send(message) throws when the transport fails ('throws' is the
\* transport's outcome); the catch clause turns that into an eviction.
sendToClient(cl, clientId, throws) ==
    IF clientId \notin DOMAIN cl \/ ws[clientId].readyState # OPEN
    THEN [clients |-> cl, success |-> FALSE, called |-> FALSE, threw |-> FALSE,
          raised |-> FALSE]
    ELSE IF throws
         THEN [clients |-> removeClient(cl, clientId), success |-> FALSE,
               called |-> TRUE, threw |-> TRUE, raised |-> FALSE]
         ELSE [clients |-> updateClientActivity(cl, clientId, now), success |-> TRUE,
               called |-> TRUE, threw |-> FALSE, raised |-> FALSE]

\* broadcastToAll: forEach over the snapshot taken by getAllClients; 'fail'
\* are the channels whose transport send would throw
RECURSIVE broadcastFrom(_, _, _, _)
broadcastFrom(i, snapshot, fail, acc) ==
    IF i > Len(snapshot) THEN acc
    ELSE LET c == snapshot[i]
             r == sendToClient(acc.clients, c, c \in fail)
             acc2 == [clients |-> r.clients,
                      called |-> acc.called \cup (IF r.called THEN {c} ELSE {}),
                      threw |-> acc.threw \cup (IF r.threw THEN {c} ELSE {}),
                      ok |-> acc.ok \cup (IF r.success THEN {c} ELSE {}),
                      raised |-> r.raised]
         IN IF r.raised THEN acc2
            ELSE broadcastFrom(i + 1, snapshot, fail, acc2)

broadcastToAll(cl, fail) ==
    broadcastFrom(1, getAllClients(cl), fail,
                  [clients |-> cl, called |-> {}, threw |-> {}, ok |-> {},
                   raised |-> FALSE])

\* ------------------------------------------------------------ MessageHandler
\* mutant: the acknowledgment is logged but the entry is not removed
handleAcknowledgment_keeps(pending, messageId) == pending

\* mutant: findIndex/splice instead of filter; for an unknown id the index is
\* -1 and splice(-1, 1) removes the last entry
handleAcknowledgment_splice(pending, messageId) ==
    IF \E i \in 1..Len(pending) : pending[i].id = messageId
    THEN SelectSeq(pending, LAMBDA msg : msg.id # messageId)
    ELSE SubSeq(pending, 1, Len(pending) - 1)

handleAcknowledgment(pending, messageId) ==
    SelectSeq(pending, LAMBDA msg : msg.id # messageId)

\* mutant: the write-back loses the entries recorded at the instant of the
\* sweep, as a write-back of a stale copy of the ledger would
setPendingMessages_stale(messages) ==
    SelectSeq(messages, LAMBDA e : e.attempts # 1 \/ e.lastAttempt # now)

setPendingMessages(messages) == messages

PendingIds(pending) == { pending[i].id : i \in 1..Len(pending) }

\* -------------------------------------------------------------- RetryHandler
\* mutant: no attempt count is ever enough
attemptsExhausted_never(msg) == msg.attempts > msg.attempts

\* mutant: the bound is compared with > instead of >=
attemptsExhausted_offByOne(msg) == msg.attempts > config.maxAttempts

attemptsExhausted(msg) == msg.attempts >= config.maxAttempts

\* mutant: the elapsed time is compared with checkInterval
notYetDue_checkInterval(msg, t) == t - msg.lastAttempt < config.checkInterval

\* mutant: an entry has to wait twice the delay
notYetDue_doubleDelay(msg, t) == t - msg.lastAttempt < 2 * config.retryDelay

\* mutant: every entry counts as due
notYetDue_alwaysDue(msg, t) == t < msg.lastAttempt

\* mutant: the delay is compared with <= instead of <
notYetDue_inclusive(msg, t) == t - msg.lastAttempt <= config.retryDelay

notYetDue(msg, t) == t - msg.lastAttempt < config.retryDelay

\* mutant: the resend goes to the earliest registered channel
retryFrame_firstClient(msg) ==
    [clientId |-> IF getClientCount(clients) > 0
                  THEN getAllClients(clients)[1] ELSE msg.clientId,
     message |-> [type |-> "URL_SHORTENED", messageId |-> msg.id, data |-> msg.data]]

\* the call the sweep makes for an entry: sendToClient(msg.clientId, message)
retryFrame(msg) ==
    [clientId |-> msg.clientId,
     message |-> [type |-> "URL_SHORTENED", messageId |-> msg.id, data |-> msg.data]]

\* the filter callback of processPendingMessages, applied from entry i on;
\* 'fail' are the indexes of the entries whose transport send would throw
RECURSIVE processFrom(_, _, _, _, _)
processFrom(i, pending, fail, t, acc) ==
    IF i > Len(pending) THEN acc
    ELSE LET msg == pending[i] IN
      IF attemptsExhausted(msg)
      THEN processFrom(i + 1, pending, fail, t,
                       [acc EXCEPT !.msgLog[msg.id].retired = "max"])
      ELSE IF notYetDue(msg, t)
      THEN processFrom(i + 1, pending, fail, t,
                       [acc EXCEPT !.messages = Append(@, msg)])
      ELSE IF ~hasClient(acc.clients, msg.clientId)
      THEN processFrom(i + 1, pending, fail, t,
                       [acc EXCEPT !.msgLog[msg.id].retired = "gone"])
      ELSE LET r == sendToClient(acc.clients, retryFrame(msg).clientId, i \in fail)
               acc2 == [acc EXCEPT
                          !.clients = r.clients,
                          !.msgLog = IF r.called
                                     THEN [@ EXCEPT ![msg.id].sendCalls = @ + 1]
                                     ELSE @,
                          !.frames = Append(@, retryFrame(msg)),
                          !.sent = IF r.called THEN @ \cup {msg.id} ELSE @,
                          !.called = IF r.called
                                     THEN @ \cup {retryFrame(msg).clientId} ELSE @,
                          !.threw = IF r.threw
                                    THEN @ \cup {retryFrame(msg).clientId} ELSE @]
           IN IF r.raised
              THEN \* caught by the filter callback, which then returns true
                   processFrom(i + 1, pending, fail, t,
                       [acc2 EXCEPT !.messages = Append(@, msg)])
              ELSE IF r.success
              THEN processFrom(i + 1, pending, fail, t,
                       [acc2 EXCEPT !.messages =
                           Append(@, [msg EXCEPT !.attempts = @ + 1,
                                                 !.lastAttempt = t])])
              ELSE processFrom(i + 1, pending, fail, t,
                       [acc2 EXCEPT !.msgLog[msg.id].retired = "failed"])

processPendingMessages(cl, pending, fail, t) ==
    processFrom(1, pending, fail, t,
                [messages |-> <<>>, clients |-> cl, msgLog |-> msgLog,
                 frames |-> <<>>, sent |-> {}, called |-> {}, threw |-> {}])

\* ------------------------------------------------------------ inbound frames
\* Raw frames a client can put on the wire, and what JSON.parse makes of them.
RawFrames ==
    { [text |-> "not json"], [text |-> "null"], [text |-> "{}"],
      [text |-> "{type:ERROR}"], [text |-> "{type:ACKNOWLEDGMENT}"],
      [text |-> "{type:ACKNOWLEDGMENT,messageId:null}"] }
    \cup { [text |-> "{type:ACKNOWLEDGMENT,messageId}", messageId |-> m] :
             m \in (1..MaxMsgs) \cup {UnknownId} }

JSONparse(raw) ==
    CASE raw.text = "not json" -> [threw |-> TRUE]
      [] raw.text = "null" -> [threw |-> FALSE, isObject |-> FALSE]
      [] raw.text = "{}" -> [threw |-> FALSE, isObject |-> TRUE, type |-> "undefined"]
      [] raw.text = "{type:ERROR}" -> [threw |-> FALSE, isObject |-> TRUE, type |-> "ERROR"]
      [] raw.text = "{type:ACKNOWLEDGMENT}" ->
            [threw |-> FALSE, isObject |-> TRUE, type |-> "ACKNOWLEDGMENT",
             messageId |-> Undefined]
      [] raw.text = "{type:ACKNOWLEDGMENT,messageId:null}" ->
            [threw |-> FALSE, isObject |-> TRUE, type |-> "ACKNOWLEDGMENT",
             messageId |-> Null]
      [] OTHER ->
            [threw |-> FALSE, isObject |-> TRUE, type |-> "ACKNOWLEDGMENT",
             messageId |-> raw.messageId]

\* mutant: the attempt count starts at 0 instead of 1
sendShortenedUrl_zeroAttempts(cl, pending, clientId, shortenedUrl, throws) ==
    LET messageId == Len(msgLog) + 1
        pendingMessage == [id |-> messageId, clientId |-> clientId,
                           data |-> [shortenedURL |-> shortenedUrl],
                           attempts |-> 0, lastAttempt |-> now]
        r == sendToClient(cl, clientId, throws)
    IN [clients |-> r.clients,
        pendingMessages |-> Append(pending, pendingMessage),
        msgLog |-> Append(msgLog, [sendCalls |-> IF r.called THEN 1 ELSE 0,
                                   retired |-> ""]),
        messageId |-> messageId, success |-> r.success,
        called |-> r.called, threw |-> r.threw, raised |-> r.raised]

\* mutant: the entry is recorded only after a successful first send
sendShortenedUrl_pushOnSuccess(cl, pending, clientId, shortenedUrl, throws) ==
    LET messageId == Len(msgLog) + 1
        pendingMessage == [id |-> messageId, clientId |-> clientId,
                           data |-> [shortenedURL |-> shortenedUrl],
                           attempts |-> 1, lastAttempt |-> now]
        r == sendToClient(cl, clientId, throws)
    IN [clients |-> r.clients,
        pendingMessages |-> IF r.success THEN Append(pending, pendingMessage)
                            ELSE pending,
        msgLog |-> Append(msgLog, [sendCalls |-> IF r.called THEN 1 ELSE 0,
                                   retired |-> ""]),
        messageId |-> messageId, success |-> r.success,
        called |-> r.called, threw |-> r.threw, raised |-> r.raised]

\* MessageHandler.sendShortenedUrl: fresh id (nanoid), ledger push, first send
sendShortenedUrl(cl, pending, clientId, shortenedUrl, throws) ==
    LET messageId == Len(msgLog) + 1
        pendingMessage == [id |-> messageId, clientId |-> clientId,
                           data |-> [shortenedURL |-> shortenedUrl],
                           attempts |-> 1, lastAttempt |-> now]
        r == sendToClient(cl, clientId, throws)
    IN [clients |-> r.clients,
        pendingMessages |-> Append(pending, pendingMessage),
        msgLog |-> Append(msgLog, [sendCalls |-> IF r.called THEN 1 ELSE 0,
                                   retired |-> ""]),
        messageId |-> messageId, success |-> r.success,
        called |-> r.called, threw |-> r.threw, raised |-> r.raised]

\* sendShortenedUrl statement by statement: the state after
\* pendingMessages.push(pendingMessage), then after clientManager.sendToClient
sendShortenedUrlSteps(cl, pending, clientId, shortenedUrl, throws) ==
    LET messageId == Len(msgLog) + 1
        pendingMessage == [id |-> messageId, clientId |-> clientId,
                           data |-> [shortenedURL |-> shortenedUrl],
                           attempts |-> 1, lastAttempt |-> now]
        pushed == [clients |-> cl,
                   pendingMessages |-> Append(pending, pendingMessage),
                   msgLog |-> Append(msgLog, [sendCalls |-> 0, retired |-> ""])]
        r == sendToClient(pushed.clients, clientId, throws)
        sent == [clients |-> r.clients,
                 pendingMessages |-> pushed.pendingMessages,
                 msgLog |-> [pushed.msgLog EXCEPT ![messageId].sendCalls =
                                IF r.called THEN 1 ELSE 0]]
    IN <<pushed, sent>>

\* what a delivery call leaves behind when it returns false before any send
NotSent(clientId) ==
    [clients |-> clients, pendingMessages |-> pendingMessages,
     msgLog |-> msgLog, messageId |-> UnknownId, clientId |-> clientId,
     result |-> FALSE, success |-> FALSE, called |-> FALSE, threw |-> FALSE,
     raised |-> FALSE]

\* WebSocketManagerService.sendShortenedUrlToClient; 'result' is what it
\* returns, 'success' what the first transport send returned
sendShortenedUrlToClient(clientId, shortenedUrl, throws) ==
    IF ~hasClient(clients, clientId)
    THEN NotSent(clientId)
    ELSE LET r == sendShortenedUrl(clients, pendingMessages, clientId, shortenedUrl, throws)
         IN [clients |-> r.clients, pendingMessages |-> r.pendingMessages,
             msgLog |-> r.msgLog, messageId |-> r.messageId,
             clientId |-> clientId,
             result |-> TRUE, success |-> r.success, called |-> r.called,
             threw |-> r.threw, raised |-> r.raised]

\* the channel sendShortenedUrlToSession resolves, UnknownId when none
resolveClient(sessionId) ==
    IF sessionId = NULL
    THEN LET allClients == getAllClients(clients) IN
         IF Len(allClients) > 0 THEN allClients[1] ELSE UnknownId
    ELSE IF sessionId \notin DOMAIN clientSessionMap
         THEN UnknownId
         ELSE clientSessionMap[sessionId]

\* WebSocketManagerService.sendShortenedUrlToSession
sendShortenedUrlToSession(sessionId, shortenedUrl, throws) ==
    IF sessionId = NULL
    THEN LET allClients == getAllClients(clients) IN
         IF Len(allClients) > 0
         THEN sendShortenedUrlToClient(allClients[1], shortenedUrl, throws)
         ELSE NotSent(UnknownId)
    ELSE IF sessionId \notin DOMAIN clientSessionMap
         THEN NotSent(UnknownId)
         ELSE sendShortenedUrlToClient(clientSessionMap[sessionId], shortenedUrl, throws)

\* WebSocketManagerService.getStats
getStats(cl, pending, map) ==
    [connectedClients |-> getClientCount(cl),
     pendingMessages |-> Len(pending),
     activeSessions |-> Cardinality(DOMAIN map)]

\* ---------------------------------------------------------- ShortenUrlHandler
\* what shortenUrl can do to its caller: return a mapping, or throw
ShortenOutcomes == { "mapping", "URL003", "URL004" }

\* the reply of a request that fails before any delivery is attempted
Rejected(errorCode) ==
    [reply |-> errorCode, messageSent |-> FALSE, delivery |-> NotSent(UnknownId),
     stats |-> getStats(clients, pendingMessages, clientSessionMap)]

\* mutant: a delivery that returns false is answered with an error
ShortenUrlHandler_rejectUndelivered(valid, shortened, sessionId, shortenedUrl, throws) ==
    IF ~valid THEN Rejected("URL001")
    ELSE IF shortened # "mapping" THEN Rejected(shortened)
    ELSE LET r == sendShortenedUrlToSession(sessionId, shortenedUrl, throws) IN
         [reply |-> IF r.raised \/ ~r.result THEN "error" ELSE "accepted",
          messageSent |-> r.result, delivery |-> r,
          stats |-> getStats(r.clients, r.pendingMessages, clientSessionMap)]

\* ShortenUrlHandler.handle (POST /url): 'valid' is the outcome of the Zod
\* parse, 'shortened' that of the awaited shortenUrl; the delivery and the
\* reply run in one turn of the event loop.  An exception of the delivery
\* call would be rethrown by the catch clause.
ShortenUrlHandler(valid, shortened, sessionId, shortenedUrl, throws) ==
    IF ~valid THEN Rejected("URL001")
    ELSE IF shortened # "mapping" THEN Rejected(shortened)
    ELSE LET r == sendShortenedUrlToSession(sessionId, shortenedUrl, throws) IN
         [reply |-> IF r.raised THEN "error" ELSE "accepted",
          messageSent |-> r.result, delivery |-> r,
          stats |-> getStats(r.clients, r.pendingMessages, clientSessionMap)]

\* ------------------------------------------------------- UrlShortenerService
maxAttempts == 10

\* what this.nanoid() can return
Codes == 1..MaxCodes

CallIds == 1..MaxCalls

\* a shortenUrl call that has not been made yet
IdleCall ==
    [pc |-> "idle", url |-> <<>>, attempt |-> 0, code |-> 0, existsCalls |-> 0,
     collisions |-> 0, storeCalls |-> 0, before |-> {}]

\* URLs a POST /url body can carry and the Zod schema accepts, as the parts
\* they are made of
RequestUrls ==
    { <<"example.com">>, <<"https://", "example.com">>, <<"https://", "other.org">> }

\* shortenUrlRequestSchema.parse: https:// is put in front of a URL that has
\* no protocol
shortenUrlRequestSchema(url) ==
    IF url[1] \in {"http://", "https://"} THEN url ELSE <<"https://">> \o url

BASE_URL == "http://localhost:3000"

\* the shortenedUrl of a mapping: `${env.BASE_URL}/${code}`
shortenedUrlOf(code) == <<BASE_URL, "/", code>>

\* what a client takes out of the shortened URL it was sent
codeOf(shortenedUrl) == shortenedUrl[Len(shortenedUrl)]

\* mutant: the check always answers that the code is free
exists_alwaysFree(st, code) == FALSE

\* UrlStorageService.exists: this.storage.has(code)
exists(st, code) == code \in DOMAIN st

\* UrlStorageService.store: this.storage.set(mapping.code, mapping)
store(st, code, owner) ==
    [c \in (DOMAIN st) \cup {code} |-> IF c = code THEN owner ELSE st[c]]

\* mutant: the loop runs while attempt < maxAttempts
generateUniqueCode_offByOne(call, st, proposal) ==
    LET taken == exists(st, call.code)
        c == [call EXCEPT !.existsCalls = @ + 1,
                          !.collisions = IF taken THEN @ + 1 ELSE @] IN
    IF ~taken THEN [c EXCEPT !.pc = "store", !.storeCalls = @ + 1]
    ELSE IF call.attempt + 1 < maxAttempts
         THEN [c EXCEPT !.attempt = @ + 1, !.code = proposal]
         ELSE [c EXCEPT !.pc = "failed"]

\* generateUniqueCode from the point where the awaited exists(code) answers:
\* return the code (shortenUrl then builds the mapping and calls store), or go
\* round the loop with the next proposal, or throw URL003 after maxAttempts
generateUniqueCode(call, st, proposal) ==
    LET taken == exists(st, call.code)
        c == [call EXCEPT !.existsCalls = @ + 1,
                          !.collisions = IF taken THEN @ + 1 ELSE @] IN
    IF ~taken THEN [c EXCEPT !.pc = "store", !.storeCalls = @ + 1]
    ELSE IF call.attempt + 1 <= maxAttempts
         THEN [c EXCEPT !.attempt = @ + 1, !.code = proposal]
         ELSE [c EXCEPT !.pc = "failed"]

UrlInit ==
    /\ storage = <<>>
    /\ calls = [i \in CallIds |-> IdleCall]

\* shortenUrl is called: generateUniqueCode draws its first proposal and
\* awaits exists(code)
ShortenUrl(i, url, proposal) ==
    /\ calls[i].pc = "idle"
    /\ calls' = [calls EXCEPT ![i] =
                    [IdleCall EXCEPT !.pc = "exists", !.attempt = 1,
                                     !.url = shortenUrlRequestSchema(url),
                                     !.code = proposal,
                                     !.before = { j \in CallIds : calls[j].pc = "done" }]]
    /\ UNCHANGED storage
    /\ UNCHANGED <<deliveryVars, singleVars>>

\* the timer inside exists() fires and the call runs on to its next await
ExistsAnswers(i, proposal) ==
    /\ calls[i].pc = "exists"
    /\ calls' = [calls EXCEPT ![i] = generateUniqueCode(calls[i], storage, proposal)]
    /\ UNCHANGED storage
    /\ UNCHANGED <<deliveryVars, singleVars>>

\* UrlStorageService.get: the mapping stored under the code, or null (the
\* empty sequence); the stored mapping is the one its shortenUrl call built
get(st, code) ==
    IF code \in DOMAIN st
    THEN << [code |-> code, originalUrl |-> calls[st[code]].url,
             shortenedUrl |-> shortenedUrlOf(code)] >>
    ELSE <<>>

\* GetUrlHandler.handle (GET /:code) for a code the schema accepts
GetUrlHandler(code) ==
    IF get(storage, code) = <<>>
    THEN [status |-> 404, errorCode |-> "URL002"]
    ELSE [status |-> 200, url |-> get(storage, code)[1].originalUrl]

\* the timer inside store() fires: the mapping is set and shortenUrl returns
StoreCompletes(i) ==
    /\ calls[i].pc = "store"
    /\ storage' = store(storage, calls[i].code, i)
    /\ calls' = [calls EXCEPT ![i].pc = "done"]
    /\ UNCHANGED <<deliveryVars, singleVars>>

\* ------------------------------------- single-client WebSocketManagerService
\* no client: this.currentClient is null
NoClient == 0

SingleInit ==
    single = [currentClient |-> NoClient, sockets |-> <<>>, pendingMessages |-> <<>>,
              retryInterval |-> TRUE, now |-> 0, sendCalls |-> <<>>]

\* websocket.close(): an OPEN transport starts the closing handshake
closeSocket(w) ==
    [w EXCEPT !.readyState = IF @ = OPEN THEN CLOSING ELSE @, !.closeCalls = @ + 1]

\* wss.on('connection'): the previous client, if any, is closed and the new
\* transport becomes the current client
singleConnection(s) ==
    LET sockets == IF s.currentClient # NoClient
                   THEN [s.sockets EXCEPT ![s.currentClient] = closeSocket(@)]
                   ELSE s.sockets
    IN [s EXCEPT !.sockets = Append(sockets, [readyState |-> OPEN, closeCalls |-> 0,
                                              terminated |-> 0]),
                 !.currentClient = Len(s.sockets) + 1]

\* mutant: the close listener clears the current client whatever transport closed
singleOnClose_unguarded(s, c) ==
    [s EXCEPT !.sockets[c].readyState = CLOSED, !.currentClient = NoClient]

\* ws.on('close') of transport c: the current client is cleared only when it
\* is this transport
singleOnClose(s, c) ==
    [s EXCEPT !.sockets[c].readyState = CLOSED,
              !.currentClient = IF @ = c THEN NoClient ELSE @]

\* sendShortenedUrl: nothing without a client; else the entry is pushed and the
\* frame sent, an exception of the transport send being caught and logged
singleSendShortenedUrl(s) ==
    IF s.currentClient = NoClient THEN s
    ELSE [s EXCEPT !.pendingMessages =
                      Append(@, [id |-> Len(s.sendCalls) + 1, attempts |-> 1,
                                 lastAttempt |-> s.now]),
                   !.sendCalls = Append(@, 1)]

\* handleAcknowledgment: the entries with that id are filtered out
singleHandleAcknowledgment(s, messageId) ==
    [s EXCEPT !.pendingMessages = SelectSeq(@, LAMBDA msg : msg.id # messageId)]

\* the filter callback of the single-client sweep from entry i on; 'fail' are
\* the indexes of the entries whose transport send throws
RECURSIVE singleProcessFrom(_, _, _, _, _)
singleProcessFrom(i, pending, fail, t, acc) ==
    IF i > Len(pending) THEN acc
    ELSE LET msg == pending[i] IN
      IF msg.attempts >= DEFAULT_RETRY_CONFIG.maxAttempts
      THEN singleProcessFrom(i + 1, pending, fail, t, acc)
      ELSE IF t - msg.lastAttempt < DEFAULT_RETRY_CONFIG.retryDelay
      THEN singleProcessFrom(i + 1, pending, fail, t,
                             [acc EXCEPT !.messages = Append(@, msg)])
      ELSE LET called == [acc EXCEPT !.sendCalls[msg.id] = @ + 1] IN
           IF i \in fail
           THEN \* send threw: caught, neither attempts nor lastAttempt change
                singleProcessFrom(i + 1, pending, fail, t,
                                  [called EXCEPT !.messages = Append(@, msg)])
           ELSE singleProcessFrom(i + 1, pending, fail, t,
                                  [called EXCEPT !.messages =
                                      Append(@, [msg EXCEPT !.attempts = @ + 1,
                                                            !.lastAttempt = t])])

\* retryPendingMessages (RetryHandler.processPendingMessages of the
\* single-client manager): nothing is done without a client
retryPendingMessages(s, fail) ==
    IF s.currentClient = NoClient THEN s
    ELSE LET r == singleProcessFrom(1, s.pendingMessages, fail, s.now,
                                    [messages |-> <<>>, sendCalls |-> s.sendCalls])
         IN [s EXCEPT !.pendingMessages = r.messages, !.sendCalls = r.sendCalls]

\* close(): the retry timer is stopped, the current client terminated and
\* forgotten, the pending list cleared
singleClose(s) ==
    LET sockets == IF s.currentClient # NoClient
                   THEN [s.sockets EXCEPT ![s.currentClient] =
                           [@ EXCEPT !.readyState = IF @ = CLOSED THEN CLOSED ELSE CLOSING,
                                     !.terminated = @ + 1]]
                   ELSE s.sockets
    IN [s EXCEPT !.retryInterval = FALSE, !.sockets = sockets,
                 !.currentClient = NoClient, !.pendingMessages = <<>>]

\* (the server accepts connections until close(), which also stops the timer)
SingleConnect ==
    /\ Len(single.sockets) < MaxClients
    /\ single.retryInterval
    /\ single' = singleConnection(single)
    /\ UNCHANGED <<deliveryVars, urlVars>>

SingleOnClose(c) ==
    /\ single.sockets[c].readyState # CLOSED
    /\ single' = singleOnClose(single, c)
    /\ UNCHANGED <<deliveryVars, urlVars>>

SingleSend ==
    /\ Len(single.sendCalls) < MaxMsgs
    /\ single.currentClient # NoClient
    /\ single' = singleSendShortenedUrl(single)
    /\ UNCHANGED <<deliveryVars, urlVars>>

SingleAcknowledge(c, messageId) ==
    /\ single.sockets[c].readyState = OPEN
    /\ single' = singleHandleAcknowledgment(single, messageId)
    /\ UNCHANGED <<deliveryVars, urlVars>>

SingleSweep(fail) ==
    /\ single.retryInterval
    /\ \A m \in DOMAIN single.sendCalls : single.sendCalls[m] < MaxSendCalls
    /\ single' = retryPendingMessages(single, fail)
    /\ UNCHANGED <<deliveryVars, urlVars>>

SingleTick ==
    /\ single.now + DEFAULT_RETRY_CONFIG.retryDelay
          <= DEFAULT_RETRY_CONFIG.maxAttempts * DEFAULT_RETRY_CONFIG.retryDelay
    /\ single' = [single EXCEPT !.now = @ + DEFAULT_RETRY_CONFIG.retryDelay]
    /\ UNCHANGED <<deliveryVars, urlVars>>

SingleShutdown ==
    /\ single' = singleClose(single)
    /\ UNCHANGED <<deliveryVars, urlVars>>

SingleSocketIds == 1..Len(single.sockets)

SingleNext ==
    \/ SingleConnect
    \/ \E c \in SingleSocketIds : SingleOnClose(c)
    \/ SingleSend
    \/ \E c \in SingleSocketIds, m \in DOMAIN single.sendCalls : SingleAcknowledge(c, m)
    \/ \E fail \in SUBSET (1..Len(single.pendingMessages)) : SingleSweep(fail)
    \/ SingleTick
    \/ SingleShutdown

\* ----------------------------------------------------------------- the state
Init ==
    /\ UrlInit
    /\ SingleInit
    /\ clients = <<>>
    /\ ws = <<>>
    /\ heartbeatInterval = TRUE
    /\ pendingMessages = <<>>
    /\ clientSessionMap = <<>>
    /\ retryInterval = TRUE
    /\ config \in RetryConfigs
    /\ wssOpen = TRUE
    /\ now = 0
    /\ msgLog = <<>>

\* wss.on('connection'): ConnectionHandler.handleConnection -> addClient
Connect ==
    /\ wssOpen
    /\ Len(ws) < MaxClients
    /\ LET clientId == Len(ws) + 1 IN
        /\ ws' = Append(ws, [readyState |-> OPEN, terminated |-> 0])
        /\ clients' = [c \in (DOMAIN clients) \cup {clientId} |->
                          IF c = clientId
                          THEN [id |-> clientId, lastActivity |-> now]
                          ELSE clients[c]]
    /\ UNCHANGED <<urlVars, singleVars>>
    /\ UNCHANGED <<heartbeatInterval, pendingMessages, clientSessionMap, retryInterval,
                   config, wssOpen, now, msgLog>>

\* the state a delivery call leaves behind
Delivered(r) ==
    /\ r.messageId # UnknownId => Len(msgLog) < MaxMsgs
    /\ clients' = r.clients
    /\ pendingMessages' = r.pendingMessages
    /\ msgLog' = r.msgLog
    /\ UNCHANGED <<urlVars, singleVars>>
    /\ UNCHANGED <<ws, heartbeatInterval, clientSessionMap, retryInterval, config,
                   wssOpen, now>>

\* POST /url -> ShortenUrlHandler.handle -> sendShortenedUrlToSession
DeliverToSession(sessionId, shortenedUrl, throws) ==
    Delivered(ShortenUrlHandler(TRUE, "mapping", sessionId, shortenedUrl, throws).delivery)

\* the public sendShortenedUrlToClient, called with any channel id
DeliverToClient(clientId, shortenedUrl, throws) ==
    Delivered(sendShortenedUrlToClient(clientId, shortenedUrl, throws))

\* mutant: a session can only be bound to a registered channel
associateSession_registeredOnly(map, sessionId, clientId) ==
    IF clientId \in Registered
    THEN [s \in (DOMAIN map) \cup {sessionId} |->
             IF s = sessionId THEN clientId ELSE map[s]]
    ELSE map

\* WebSocketManagerService.associateSession (POST /ws/register-session)
associateSession(map, sessionId, clientId) ==
    [s \in (DOMAIN map) \cup {sessionId} |->
        IF s = sessionId THEN clientId ELSE map[s]]

AssociateSession(sessionId, clientId) ==
    /\ clientSessionMap' = associateSession(clientSessionMap, sessionId, clientId)
    /\ UNCHANGED <<urlVars, singleVars>>
    /\ UNCHANGED <<clients, ws, heartbeatInterval, pendingMessages, retryInterval,
                   config, wssOpen, now, msgLog>>

\* the try block of the 'message' listener: JSON.parse throws, or reading
\* .type of null throws, and the catch clause swallows it
messageCaught(raw) == JSONparse(raw).threw \/ ~JSONparse(raw).isObject

isAcknowledgment(raw) ==
    ~messageCaught(raw) /\ JSONparse(raw).type = "ACKNOWLEDGMENT"

\* mutant: the catch clause unregisters the channel that sent the bad frame
onMessage_evictOnInvalid(clientId, raw) ==
    [pendingMessages |->
        IF isAcknowledgment(raw)
        THEN handleAcknowledgment(pendingMessages, JSONparse(raw).messageId)
        ELSE pendingMessages,
     clients |-> IF messageCaught(raw) THEN removeClient(clients, clientId)
                 ELSE updateClientActivity(clients, clientId, now),
     msgLog |-> IF isAcknowledgment(raw)
                THEN [m \in DOMAIN msgLog |->
                        IF m = JSONparse(raw).messageId
                           /\ m \in PendingIds(pendingMessages)
                        THEN [msgLog[m] EXCEPT !.retired = "ack"]
                        ELSE msgLog[m]]
                ELSE msgLog,
     caught |-> messageCaught(raw),
     raised |-> FALSE]

\* mutant: an acknowledgment counts only when it arrives on the registered
\* channel the message was recorded for
onMessage_ownChannelOnly(clientId, raw) ==
    LET own == isAcknowledgment(raw) /\ clientId \in DOMAIN clients
               /\ \E i \in 1..Len(pendingMessages) :
                     /\ pendingMessages[i].id = JSONparse(raw).messageId
                     /\ pendingMessages[i].clientId = clientId
    IN
    [pendingMessages |->
        IF own
        THEN handleAcknowledgment(pendingMessages, JSONparse(raw).messageId)
        ELSE pendingMessages,
     clients |-> IF messageCaught(raw) THEN clients
                 ELSE updateClientActivity(clients, clientId, now),
     msgLog |-> IF own
                THEN [m \in DOMAIN msgLog |->
                        IF m = JSONparse(raw).messageId
                        THEN [msgLog[m] EXCEPT !.retired = "ack"]
                        ELSE msgLog[m]]
                ELSE msgLog,
     caught |-> messageCaught(raw),
     raised |-> FALSE]

\* ws.on('message') of ConnectionHandler.handleConnection, for the transport
\* of channel clientId: what the listener leaves behind
onMessage(clientId, raw) ==
    [pendingMessages |->
        IF isAcknowledgment(raw)
        THEN handleAcknowledgment(pendingMessages, JSONparse(raw).messageId)
        ELSE pendingMessages,
     clients |-> IF messageCaught(raw) THEN clients
                 ELSE updateClientActivity(clients, clientId, now),
     msgLog |-> IF isAcknowledgment(raw)
                THEN [m \in DOMAIN msgLog |->
                        IF m = JSONparse(raw).messageId
                           /\ m \in PendingIds(pendingMessages)
                        THEN [msgLog[m] EXCEPT !.retired = "ack"]
                        ELSE msgLog[m]]
                ELSE msgLog,
     caught |-> messageCaught(raw),
     raised |-> FALSE]

\* a frame arrives on an open transport (the listener outlives the registry
\* entry)
OnMessage(clientId, raw) ==
    /\ ws[clientId].readyState = OPEN
    /\ LET r == onMessage(clientId, raw) IN
        /\ pendingMessages' = r.pendingMessages
        /\ clients' = r.clients
        /\ msgLog' = r.msgLog
    /\ UNCHANGED <<urlVars, singleVars>>
    /\ UNCHANGED <<ws, heartbeatInterval, clientSessionMap, retryInterval, config,
                   wssOpen, now>>

\* ws.on('pong')
OnPong(clientId) ==
    /\ ws[clientId].readyState = OPEN
    /\ clients' = updateClientActivity(clients, clientId, now)
    /\ UNCHANGED <<urlVars, singleVars>>
    /\ UNCHANGED <<ws, heartbeatInterval, pendingMessages, clientSessionMap,
                   retryInterval, config, wssOpen, now, msgLog>>

\* ws.on('close'): the transport has reached CLOSED; emitted once per transport
OnClose(clientId) ==
    /\ ws[clientId].readyState # CLOSED
    /\ ws' = [ws EXCEPT ![clientId].readyState = CLOSED]
    /\ clients' = removeClient(clients, clientId)
    /\ UNCHANGED <<urlVars, singleVars>>
    /\ UNCHANGED <<heartbeatInterval, pendingMessages, clientSessionMap,
                   retryInterval, config, wssOpen, now, msgLog>>

\* ws.on('error'): the transport fails and starts closing
OnError(clientId) ==
    /\ ws[clientId].readyState = OPEN
    /\ ws' = [ws EXCEPT ![clientId].readyState = CLOSING]
    /\ clients' = removeClient(clients, clientId)
    /\ UNCHANGED <<urlVars, singleVars>>
    /\ UNCHANGED <<heartbeatInterval, pendingMessages, clientSessionMap,
                   retryInterval, config, wssOpen, now, msgLog>>

\* the peer starts the closing handshake: no event reaches the handlers yet
PeerCloses(clientId) ==
    /\ ws[clientId].readyState = OPEN
    /\ ws' = [ws EXCEPT ![clientId].readyState = CLOSING]
    /\ UNCHANGED <<urlVars, singleVars>>
    /\ UNCHANGED <<clients, heartbeatInterval, pendingMessages, clientSessionMap,
                   retryInterval, config, wssOpen, now, msgLog>>

\* MultiClientManager.broadcastToAll; 'fail' are the channels whose transport
\* send throws
BroadcastToAll(fail) ==
    /\ clients' = broadcastToAll(clients, fail).clients
    /\ UNCHANGED <<urlVars, singleVars>>
    /\ UNCHANGED <<ws, heartbeatInterval, pendingMessages, clientSessionMap,
                   retryInterval, config, wssOpen, now, msgLog>>

\* ConnectionHandler.sendToClient / MultiClientManager.sendToClient, called
\* with any channel id
SendToClient(clientId, throws) ==
    /\ clients' = sendToClient(clients, clientId, throws).clients
    /\ UNCHANGED <<urlVars, singleVars>>
    /\ UNCHANGED <<ws, heartbeatInterval, pendingMessages, clientSessionMap,
                   retryInterval, config, wssOpen, now, msgLog>>

\* the retry timer's callback (startRetryMechanism): read the ledger, filter
\* it, write the result back, all in one run of the event loop; 'fail' are
\* the indexes of the entries whose transport send throws
RetrySweep(fail) ==
    /\ retryInterval
    /\ LET r == processPendingMessages(clients, pendingMessages, fail, now) IN
        /\ pendingMessages' = setPendingMessages(r.messages)
        /\ clients' = r.clients
        /\ msgLog' = r.msgLog
    /\ UNCHANGED <<urlVars, singleVars>>
    /\ UNCHANGED <<ws, heartbeatInterval, clientSessionMap, retryInterval, config,
                   wssOpen, now>>

\* the heartbeat timer's callback (startHeartbeat); 'pingFail' are the channels
\* whose websocket.ping() throws
\* mutant: an idle channel is evicted at once, whatever its ping does
staleClients_evictIdle(cl, pingFail) ==
    { c \in DOMAIN cl :
        \/ ws[c].readyState # OPEN
        \/ now - cl[c].lastActivity > InactiveLimit }

staleClients(cl, pingFail) ==
    { c \in DOMAIN cl :
        \/ ws[c].readyState # OPEN
        \/ (now - cl[c].lastActivity > InactiveLimit /\ c \in pingFail) }

\* mutant: the sweep only probes idle channels and never looks at readyState
heartbeatSweep_idleOnly(cl, pingFail) ==
    [clients |-> [c \in { d \in DOMAIN cl :
                            ~(now - cl[d].lastActivity > InactiveLimit
                              /\ d \in pingFail) } |->
                    IF now - cl[c].lastActivity > InactiveLimit
                    THEN [cl[c] EXCEPT !.lastActivity = now]
                    ELSE cl[c]],
     pinged |-> { c \in DOMAIN cl : now - cl[c].lastActivity > InactiveLimit }]

\* what one run of the callback leaves behind: the registry, and the channels
\* whose websocket.ping() was called
heartbeatSweep(cl, pingFail) ==
    [clients |-> [c \in (DOMAIN cl) \ staleClients(cl, pingFail) |->
                    IF now - cl[c].lastActivity > InactiveLimit
                    THEN [cl[c] EXCEPT !.lastActivity = now]
                    ELSE cl[c]],
     pinged |-> { c \in DOMAIN cl :
                    /\ ws[c].readyState = OPEN
                    /\ now - cl[c].lastActivity > InactiveLimit }]

Heartbeat(pingFail) ==
    /\ heartbeatInterval
    /\ clients' = heartbeatSweep(clients, pingFail).clients
    /\ UNCHANGED <<urlVars, singleVars>>
    /\ UNCHANGED <<ws, heartbeatInterval, pendingMessages, clientSessionMap,
                   retryInterval, config, wssOpen, now, msgLog>>

\* websocket.terminate(): the socket is destroyed, its close event follows
terminate(w) ==
    [readyState |-> IF w.readyState = CLOSED THEN CLOSED ELSE CLOSING,
     terminated |-> w.terminated + 1]

\* WebSocketManagerService.close: RetryHandler.stop, closeAllClients
\* (MultiClientManager.closeAll), clearPendingMessages, clientSessionMap.clear,
\* wss.close
\* mutant: the channels are evicted first and the retry timer stopped last
closePhases_evictFirst ==
    LET p0 == [retryInterval |-> retryInterval, ws |-> ws, clients |-> clients,
               heartbeatInterval |-> heartbeatInterval,
               pendingMessages |-> pendingMessages,
               clientSessionMap |-> clientSessionMap, wssOpen |-> wssOpen]
        p1 == [p0 EXCEPT !.ws = [c \in DOMAIN ws |->
                                   IF c \in DOMAIN clients THEN terminate(ws[c])
                                   ELSE ws[c]],
                         !.clients = <<>>,
                         !.heartbeatInterval = FALSE]
        p2 == [p1 EXCEPT !.pendingMessages = <<>>]
        p3 == [p2 EXCEPT !.clientSessionMap = <<>>]
        p4 == [p3 EXCEPT !.wssOpen = FALSE]
        p5 == [p4 EXCEPT !.retryInterval = FALSE]
    IN <<p1, p2, p3, p4, p5>>

\* mutant: closeAll terminates every transport that ever connected, not only
\* those still in the registry
closePhases_terminateAll ==
    LET p0 == [retryInterval |-> retryInterval, ws |-> ws, clients |-> clients,
               heartbeatInterval |-> heartbeatInterval,
               pendingMessages |-> pendingMessages,
               clientSessionMap |-> clientSessionMap, wssOpen |-> wssOpen]
        p1 == [p0 EXCEPT !.retryInterval = FALSE]
        p2 == [p1 EXCEPT !.ws = [c \in DOMAIN ws |-> terminate(ws[c])],
                         !.clients = <<>>,
                         !.heartbeatInterval = FALSE]
        p3 == [p2 EXCEPT !.pendingMessages = <<>>]
        p4 == [p3 EXCEPT !.clientSessionMap = <<>>]
        p5 == [p4 EXCEPT !.wssOpen = FALSE]
    IN <<p1, p2, p3, p4, p5>>

\* the state after each statement of close(), in program order:
\* retryHandler.stop(); closeAllClients() (terminate every registered
\* transport, empty the registry, stop the heartbeat);
\* clearPendingMessages(); clientSessionMap.clear(); wss.close()
closePhases ==
    LET p0 == [retryInterval |-> retryInterval, ws |-> ws, clients |-> clients,
               heartbeatInterval |-> heartbeatInterval,
               pendingMessages |-> pendingMessages,
               clientSessionMap |-> clientSessionMap, wssOpen |-> wssOpen]
        p1 == [p0 EXCEPT !.retryInterval = FALSE]
        p2 == [p1 EXCEPT !.ws = [c \in DOMAIN ws |->
                                   IF c \in DOMAIN clients THEN terminate(ws[c])
                                   ELSE ws[c]],
                         !.clients = <<>>,
                         !.heartbeatInterval = FALSE]
        p3 == [p2 EXCEPT !.pendingMessages = <<>>]
        p4 == [p3 EXCEPT !.clientSessionMap = <<>>]
        p5 == [p4 EXCEPT !.wssOpen = FALSE]
    IN <<p1, p2, p3, p4, p5>>

Shutdown ==
    /\ retryInterval' = closePhases[5].retryInterval
    /\ ws' = closePhases[5].ws
    /\ clients' = closePhases[5].clients
    /\ heartbeatInterval' = closePhases[5].heartbeatInterval
    /\ pendingMessages' = closePhases[5].pendingMessages
    /\ clientSessionMap' = closePhases[5].clientSessionMap
    /\ wssOpen' = closePhases[5].wssOpen
    /\ msgLog' = [m \in DOMAIN msgLog |->
                    IF m \in PendingIds(pendingMessages)
                    THEN [msgLog[m] EXCEPT !.retired = "shutdown"]
                    ELSE msgLog[m]]
    /\ UNCHANGED <<urlVars, singleVars>>
    /\ UNCHANGED <<config, now>>

\* the clock advances
Tick(d) ==
    /\ now + d <= MaxTime
    /\ now' = now + d
    /\ UNCHANGED <<urlVars, singleVars>>
    /\ UNCHANGED <<clients, ws, heartbeatInterval, pendingMessages,
                   clientSessionMap, retryInterval, config, wssOpen, msgLog>>

ChannelIds == 1..Len(ws)

\* The transport outcomes that make a difference: a send can only throw on a
\* channel the call reaches, a ping only on a channel the heartbeat pings.
Sendable == { c \in Registered : ws[c].readyState = OPEN }

CanThrow(clientId) == IF clientId \in Sendable THEN BOOLEAN ELSE {FALSE}

DueIndexes ==
    { i \in 1..Len(pendingMessages) :
        /\ ~attemptsExhausted(pendingMessages[i])
        /\ ~notYetDue(pendingMessages[i], now)
        /\ pendingMessages[i].clientId \in Sendable }

Idle == { c \in Sendable : now - clients[c].lastActivity > InactiveLimit }

Next ==
    \/ Connect
    \/ \E sessionId \in SessionIds \cup {NULL}, shortenedUrl \in Urls :
          \E throws \in CanThrow(resolveClient(sessionId)) :
             DeliverToSession(sessionId, shortenedUrl, throws)
    \/ \E clientId \in ChannelIds \cup {UnknownId}, shortenedUrl \in Urls :
          \E throws \in CanThrow(clientId) :
             DeliverToClient(clientId, shortenedUrl, throws)
    \/ \E sessionId \in SessionIds, clientId \in ChannelIds \cup {UnknownId} :
          AssociateSession(sessionId, clientId)
    \/ \E clientId \in ChannelIds, raw \in RawFrames : OnMessage(clientId, raw)
    \/ \E clientId \in ChannelIds : OnPong(clientId)
    \/ \E clientId \in ChannelIds : OnClose(clientId)
    \/ \E clientId \in ChannelIds : OnError(clientId)
    \/ \E clientId \in ChannelIds : PeerCloses(clientId)
    \/ \E fail \in SUBSET Sendable : BroadcastToAll(fail)
    \/ \E clientId \in ChannelIds \cup {UnknownId} :
          \E throws \in CanThrow(clientId) : SendToClient(clientId, throws)
    \/ \E fail \in SUBSET DueIndexes : RetrySweep(fail)
    \/ \E pingFail \in SUBSET Idle : Heartbeat(pingFail)
    \/ Shutdown
    \/ \E d \in ClockSteps : Tick(d)

Spec == Init /\ [][Next]_vars

\* ------------------------------------------------------------------ claims
MessageIds == 1..Len(msgLog)

AllChannelsLive ==
    /\ Registered = ChannelIds
    /\ \A c \in ChannelIds : ws[c].readyState = OPEN

\* what a retry sweep would leave behind, for every transport outcome
SweepOutcomes ==
    { processPendingMessages(clients, pendingMessages, fail, now) :
        fail \in SUBSET (1..Len(pendingMessages)) }

\* a sweep drops every entry at the attempt bound without sending it
ExhaustedDropped ==
    \A r \in SweepOutcomes : \A i \in 1..Len(pendingMessages) :
        pendingMessages[i].attempts >= config.maxAttempts =>
            /\ pendingMessages[i].id \notin PendingIds(r.messages)
            /\ r.msgLog[pendingMessages[i].id].sendCalls
                 = msgLog[pendingMessages[i].id].sendCalls

\* a message that is out of the ledger stays out and is never sent again
RetiredStaysRetired ==
    \A m \in MessageIds :
        m \notin PendingIds(pendingMessages) =>
            /\ m \notin PendingIds(pendingMessages')
            /\ msgLog'[m].sendCalls = msgLog[m].sendCalls

\* C1: bounded retry termination.  A retry sweep removes every entry whose
\* attempt count has reached maxAttempts without sending it, whatever the
\* elapsed time and whether or not its channel is registered and OPEN; and no
\* transport send is ever made for a message that is no longer in the ledger.
C1_BoundedRetryTermination == []ExhaustedDropped /\ [][RetiredStaysRetired]_vars

\* C1 witness: a message was retired by a sweep at the attempt bound, before
\* its retry delay could have elapsed and with every channel still live.
C1_Witness ==
    \E m \in MessageIds :
        /\ msgLog[m].retired = "max"
        /\ msgLog[m].sendCalls = config.maxAttempts
        /\ config.retryDelay > 0
        /\ now = 0
        /\ AllChannelsLive

\* C2: every ledger entry has 1 <= attempts <= maxAttempts, and no message id
\* has more than maxAttempts transport sends (first send plus resends).
C2_AttemptsBounded ==
    /\ \A i \in 1..Len(pendingMessages) :
          /\ 1 <= pendingMessages[i].attempts
          /\ pendingMessages[i].attempts <= config.maxAttempts
    /\ \A m \in MessageIds : msgLog[m].sendCalls <= config.maxAttempts

\* C2 witness: an entry that has used up all its attempts, resends included.
C2_Witness ==
    \E i \in 1..Len(pendingMessages) :
        /\ config.maxAttempts >= 2
        /\ pendingMessages[i].attempts = config.maxAttempts
        /\ msgLog[pendingMessages[i].id].sendCalls = config.maxAttempts

\* the acknowledgment frame a client sends for message id m; without a
\* messageId when m is Undefined
AckFrame(m) ==
    IF m = Undefined
    THEN [text |-> "{type:ACKNOWLEDGMENT}"]
    ELSE [text |-> "{type:ACKNOWLEDGMENT,messageId}", messageId |-> m]

\* C3: acknowledge-wins.  Once the acknowledgment of m has been processed, m
\* is absent from the ledger after every later step, retry sweeps included,
\* and no further transport send is made for it.
C3_AcknowledgeWins ==
    [][ \A m \in MessageIds :
          /\ msgLog'[m].retired = "ack" => m \notin PendingIds(pendingMessages')
          /\ msgLog[m].retired = "ack" =>
                /\ msgLog'[m].retired = "ack"
                /\ msgLog'[m].sendCalls = msgLog[m].sendCalls ]_vars

\* C3 witness: a message that a sweep had already resent was acknowledged, and
\* the retry timer is still running.
C3_Witness ==
    \E m \in MessageIds :
        /\ msgLog[m].retired = "ack"
        /\ msgLog[m].sendCalls >= 2
        /\ retryInterval

\* the entries of old other than m are exactly the entries of new, in order
OthersKept(old, new, m) ==
    LET keep == { i \in 1..Len(old) : old[i].id # m } IN
    /\ Len(new) = Cardinality(keep)
    /\ \A i \in keep : new[Cardinality({ j \in keep : j <= i })] = old[i]

\* C4: acknowledge-idempotence.  An acknowledgment frame for an id that is
\* not in the ledger (already acknowledged, never recorded, or missing from
\* the frame) raises no error and leaves the ledger exactly as it was; any
\* acknowledgment leaves every other entry and the entry order unchanged.
C4_AcknowledgeIdempotent ==
    \A c \in ChannelIds, m \in MessageIds \cup {UnknownId, Undefined} :
        LET r == onMessage(c, AckFrame(m)) IN
        /\ ~r.raised
        /\ ~r.caught
        /\ m \notin PendingIds(pendingMessages) =>
              r.pendingMessages = pendingMessages
        /\ OthersKept(pendingMessages, r.pendingMessages, m)

\* C4 witness: one message has been acknowledged while another entry is still
\* in the ledger, on which a repeated acknowledgment can act.
C4_Witness ==
    /\ \E m \in MessageIds : msgLog[m].retired = "ack"
    /\ Len(pendingMessages) >= 1
    /\ \E c \in ChannelIds : ws[c].readyState = OPEN

\* what a delivery r of u to the registered OPEN channel c leaves behind
DeliveredOnce(r, c, u) ==
    /\ Len(r.pendingMessages) = Len(pendingMessages) + 1
    /\ SubSeq(r.pendingMessages, 1, Len(pendingMessages)) = pendingMessages
    /\ LET e == r.pendingMessages[Len(r.pendingMessages)] IN
          /\ e.id \notin MessageIds
          /\ e.id = r.messageId
          /\ e.clientId = c
          /\ e.attempts = 1
          /\ e.data = [shortenedURL |-> u]
          /\ r.msgLog[e.id].sendCalls = 1
    /\ \A m \in MessageIds : r.msgLog[m] = msgLog[m]

\* C5: a delivery to a registered OPEN channel makes exactly one transport
\* send, for a fresh message id, and adds exactly one ledger entry (that id,
\* that channel, attempts = 1); processing the matching acknowledgment takes
\* stats().pendingMessages down by one again, without any sweep.
C5_DeliverThenAcknowledge ==
    /\ \A c \in Sendable, u \in Urls, t \in BOOLEAN :
          DeliveredOnce(sendShortenedUrlToClient(c, u, t), c, u)
    /\ \A s \in SessionIds \cup {NULL}, u \in Urls, t \in BOOLEAN :
          resolveClient(s) \in Sendable =>
             DeliveredOnce(sendShortenedUrlToSession(s, u, t), resolveClient(s), u)
    /\ \A c \in ChannelIds, m \in PendingIds(pendingMessages) :
          LET r == onMessage(c, AckFrame(m)) IN
          /\ getStats(r.clients, r.pendingMessages, clientSessionMap).pendingMessages
               = getStats(clients, pendingMessages, clientSessionMap).pendingMessages - 1
          /\ m \notin PendingIds(r.pendingMessages)

\* C5 witness: a message sent once was acknowledged and the ledger is empty
\* again.
C5_Witness ==
    \E m \in MessageIds :
        /\ msgLog[m].retired = "ack"
        /\ msgLog[m].sendCalls = 1
        /\ getStats(clients, pendingMessages, clientSessionMap).pendingMessages = 0

C7_ReturnsSendSuccess ==
    /\ \A s \in SessionIds \cup {NULL}, u \in Urls, t \in BOOLEAN :
          sendShortenedUrlToSession(s, u, t).result
             = sendShortenedUrlToSession(s, u, t).success
    /\ \A c \in ChannelIds \cup {UnknownId}, u \in Urls, t \in BOOLEAN :
          sendShortenedUrlToClient(c, u, t).result
             = sendShortenedUrlToClient(c, u, t).success

\* no channel can be resolved for the session id: a null session with an
\* empty registry, an unbound session, or a binding whose channel is no longer
\* registered or not OPEN
Unresolved(s) ==
    \/ s = NULL /\ Registered = {}
    \/ s # NULL /\ s \notin DOMAIN clientSessionMap
    \/ /\ s # NULL
       /\ s \in DOMAIN clientSessionMap
       /\ \/ clientSessionMap[s] \notin Registered
          \/ ws[clientSessionMap[s]].readyState # OPEN

IsDeliverToSession ==
    \E s \in SessionIds \cup {NULL}, u \in Urls, t \in BOOLEAN :
        DeliverToSession(s, u, t)

UnresolvedChangesNothing ==
    \A s \in SessionIds \cup {NULL}, u \in Urls, t \in BOOLEAN :
        Unresolved(s) =>
            LET r == sendShortenedUrlToSession(s, u, t) IN
            /\ r.result = FALSE
            /\ ~r.raised
            /\ ~r.called
            /\ r.pendingMessages = pendingMessages
            /\ r.clients = clients
            /\ r.msgLog = msgLog

\* C8: when no channel can be resolved, sendShortenedUrlToSession returns
\* false without throwing, makes no transport send and leaves the ledger and
\* the registry unchanged; and no delivery call changes the bindings.
C8_UnresolvedDelivery ==
    /\ []UnresolvedChangesNothing
    /\ [][clientSessionMap' = clientSessionMap \/ ~IsDeliverToSession]_vars

\* C8 witness: a session is bound to a channel that has left the registry,
\* while the ledger is not empty and another channel is registered.
C8_Witness ==
    \E s \in DOMAIN clientSessionMap :
        /\ clientSessionMap[s] \in ChannelIds \ Registered
        /\ Len(pendingMessages) >= 1
        /\ Registered # {}

C10_ChannelIsolation ==
    /\ \A fail \in SUBSET Registered :
          LET r == broadcastToAll(clients, fail) IN
          /\ ~r.raised
          /\ \A b \in Sendable :
                /\ b \in r.called
                /\ b \notin fail => b \in r.ok /\ b \in DOMAIN r.clients
          /\ \A b \in Registered \ Sendable :
                b \in DOMAIN r.clients /\ r.clients[b] = clients[b]
    /\ \A a \in ChannelIds, t \in BOOLEAN :
          LET r == sendToClient(clients, a, t) IN
          /\ ~r.raised
          /\ \A b \in Registered \ {a} :
                b \in DOMAIN r.clients /\ r.clients[b] = clients[b]
    /\ \A b \in Sendable :
          /\ sendToClient(clients, b, FALSE).success
          /\ \A u \in Urls : sendShortenedUrlToClient(b, u, FALSE).success

\* C10 witness: channel A was evicted by a throwing send while channel B is
\* still registered and OPEN.
C10_Witness ==
    /\ wssOpen
    /\ \E a \in ChannelIds \ Registered : ws[a].readyState = OPEN
    /\ \E b \in Registered : ws[b].readyState = OPEN

\* frames the listener has nothing to do with: unparseable text, valid JSON
\* that is no message or has an unknown type, an acknowledgment whose
\* messageId is missing or null
DiscardedFrames ==
    { [text |-> "not json"], [text |-> "null"], [text |-> "{}"],
      [text |-> "{type:ERROR}"], [text |-> "{type:ACKNOWLEDGMENT}"],
      [text |-> "{type:ACKNOWLEDGMENT,messageId:null}"] }

DiscardLeavesAll ==
    \A c \in ChannelIds, raw \in DiscardedFrames :
        LET r == onMessage(c, raw) IN
        /\ ~r.raised
        /\ DOMAIN r.clients = Registered
        /\ getClientCount(r.clients) = getClientCount(clients)
        /\ r.pendingMessages = pendingMessages
        /\ \A m \in MessageIds : r.msgLog[m] = msgLog[m]

IsDiscardedFrame ==
    \E c \in ChannelIds, raw \in DiscardedFrames : OnMessage(c, raw)

\* C11: an inbound frame that is unparseable, of an unknown type, or an
\* acknowledgment without a messageId is discarded: no exception escapes the
\* listener, the registry keeps the same ids (the sender included), count()
\* is unchanged, no ledger entry is removed, no send is made, and no
\* transport changes state.
C11_BadFrameDiscarded ==
    /\ []DiscardLeavesAll
    /\ [][ws' = ws \/ ~IsDiscardedFrame]_vars

\* C11 witness: a registered OPEN channel with an unacknowledged message of
\* its own in the ledger, on which an unparseable frame is caught by the
\* listener and an id-less acknowledgment is not.
C11_Witness ==
    \E c \in Sendable :
        /\ \E i \in 1..Len(pendingMessages) : pendingMessages[i].clientId = c
        /\ onMessage(c, [text |-> "not json"]).caught
        /\ ~onMessage(c, [text |-> "{type:ACKNOWLEDGMENT}"]).caught

\* C12 as claimed: every inbound frame whose JSON parsing succeeds (the JSON
\* value null and an object without a type included) and every pong refreshes
\* the lastActivity of the registered channel it arrives on.
C12_EveryParsedFrameRefreshes ==
    \A c \in Registered :
        /\ \A raw \in RawFrames :
              ~JSONparse(raw).threw =>
                 onMessage(c, raw).clients[c].lastActivity = now
        /\ updateClientActivity(clients, c, now)[c].lastActivity = now

\* the timers fire for as long as they are armed
LiveSpec ==
    /\ Spec
    /\ WF_vars(\E pingFail \in SUBSET Idle : Heartbeat(pingFail))

\* a heartbeat sweep leaves no channel registered whose transport is not OPEN
SweepEvictsClosed ==
    \A pingFail \in SUBSET Registered :
        \A c \in DOMAIN heartbeatSweep(clients, pingFail).clients :
            ws[c].readyState = OPEN

\* a channel that is out of the registry is reported absent and not counted
AbsentReported ==
    /\ \A c \in ChannelIds \ Registered :
          ~hasClient(clients, c) /\ getClient(clients, c) = NULL
    /\ getClientCount(clients) = Cardinality(Registered)
    /\ \A c \in Registered : ws[c].readyState # OPEN => ~hasClient(clients, c)

\* C13: liveness eviction.  A heartbeat sweep removes every registered channel
\* whose transport is not OPEN; the close and error handlers remove it too; a
\* removed channel never comes back, is reported absent by hasClient and
\* getClient and is not counted; and with the heartbeat timer firing, a
\* registered channel whose transport is not OPEN does leave the registry.
C13_LivenessEviction ==
    /\ [](SweepEvictsClosed /\ AbsentReported)
    /\ [][\A c \in ChannelIds : c \notin Registered => c \notin DOMAIN clients']_vars
    /\ \A c \in 1..MaxClients :
          (c \in Registered /\ ws[c].readyState # OPEN) ~> (c \notin Registered)

\* C13 witness: the peer started closing a registered channel and no close or
\* error event has been handled; the heartbeat timer is armed.
C13_Witness ==
    \E c \in Registered :
        /\ ws[c].readyState = CLOSING
        /\ ws[c].terminated = 0
        /\ heartbeatInterval

\* ------------------------------------------- the registry and its heartbeat
\* MultiClientManager on its own, driven by its transports' events and its
\* heartbeat timer, with a clock that jumps to the idle threshold and then
\* walks past it millisecond by millisecond.
IdleSteps == { 1, InactiveLimit }

IdleTick(d) ==
    /\ now + d <= InactiveLimit + MaxIdleSteps
    /\ d = 1 => now >= InactiveLimit
    /\ now' = now + d
    /\ UNCHANGED <<urlVars, singleVars>>
    /\ UNCHANGED <<clients, ws, heartbeatInterval, pendingMessages,
                   clientSessionMap, retryInterval, config, wssOpen, msgLog>>

HeartbeatInit == Init /\ config = DEFAULT_RETRY_CONFIG

HeartbeatNext ==
    \/ Connect
    \/ \E clientId \in ChannelIds : OnPong(clientId)
    \/ \E clientId \in ChannelIds : OnClose(clientId)
    \/ \E clientId \in ChannelIds : OnError(clientId)
    \/ \E clientId \in ChannelIds : PeerCloses(clientId)
    \/ \E pingFail \in SUBSET Idle : Heartbeat(pingFail)
    \/ \E d \in IdleSteps : IdleTick(d)

HeartbeatSpec == HeartbeatInit /\ [][HeartbeatNext]_vars

\* C14: in a heartbeat sweep an OPEN channel idle for more than the idle
\* threshold is pinged, stays registered when the ping succeeds and is
\* evicted exactly when the ping throws; an OPEN channel idle for no more
\* than the threshold is neither pinged nor evicted nor changed.
C14_IdleProbe ==
    \A pingFail \in SUBSET Registered : \A c \in Sendable :
        LET r == heartbeatSweep(clients, pingFail) IN
        /\ now - clients[c].lastActivity > InactiveLimit =>
              /\ c \in r.pinged
              /\ c \in DOMAIN r.clients <=> c \notin pingFail
        /\ now - clients[c].lastActivity <= InactiveLimit =>
              /\ c \notin r.pinged
              /\ c \in DOMAIN r.clients
              /\ r.clients[c] = clients[c]

\* C14 witness: past the idle threshold, one channel was evicted with its
\* transport still OPEN (its ping threw) while another OPEN channel is still
\* registered, its lastActivity refreshed.
C14_Witness ==
    /\ now > InactiveLimit
    /\ \E a \in ChannelIds \ Registered : ws[a].readyState = OPEN
    /\ \E b \in Sendable : clients[b].lastActivity = now

\* while close() runs, the retry timer is already stopped in every phase in
\* which a channel has been evicted or a transport terminated
TimerStoppedFirst ==
    \A i \in 1..Len(closePhases) :
        closePhases[i].retryInterval =>
            closePhases[i].clients = clients /\ closePhases[i].ws = ws

\* what close() leaves behind
ClosedClean ==
    LET p == closePhases[Len(closePhases)] IN
    /\ ~p.retryInterval /\ ~p.heartbeatInterval /\ ~p.wssOpen
    /\ p.clients = <<>> /\ p.pendingMessages = <<>> /\ p.clientSessionMap = <<>>
    /\ getStats(p.clients, p.pendingMessages, p.clientSessionMap)
         = [connectedClients |-> 0, pendingMessages |-> 0, activeSessions |-> 0]
    /\ \A c \in Registered :
          /\ p.ws[c].terminated = ws[c].terminated + 1
          /\ p.ws[c].readyState # OPEN

\* after close() both timers stay stopped, the registry and the ledger stay
\* empty, and no call reaches a transport
QuietAfterClose ==
    ~wssOpen =>
        /\ ~retryInterval /\ ~heartbeatInterval
        /\ Registered = {} /\ pendingMessages = <<>>
        /\ broadcastToAll(clients, {}).called = {}
        /\ \A c \in ChannelIds \cup {UnknownId}, t \in BOOLEAN :
              ~sendToClient(clients, c, t).called
        /\ \A s \in SessionIds \cup {NULL}, u \in Urls, t \in BOOLEAN :
              ~sendShortenedUrlToSession(s, u, t).called

\* C15: close() stops the retry timer before it evicts any channel; when it
\* has run, the registry, the ledger and the bindings are empty (stats 0/0/0)
\* and every transport that was registered has been terminated; and from
\* then on no retry sweep, no heartbeat sweep and no transport send happens.
C15_Shutdown ==
    /\ [](TimerStoppedFirst /\ ClosedClean /\ QuietAfterClose)
    /\ [][~wssOpen => \A m \in MessageIds : msgLog'[m].sendCalls = msgLog[m].sendCalls]_vars
    /\ [][~wssOpen => ~wssOpen']_vars

\* C15 witness: close() has run on a manager that had a registered channel
\* and an unacknowledged message.
C15_Witness ==
    /\ ~wssOpen
    /\ \E c \in ChannelIds : ws[c].terminated = 1
    /\ \E m \in MessageIds : msgLog[m].retired = "shutdown"

\* C16: once close() has run, another close() terminates no transport again
\* and leaves the empty registry, the empty ledger, empty bindings and the
\* stopped timers as they are; and the late close event of a terminated
\* transport finds nothing to remove from the registry.
C16_ShutdownIdempotent ==
    ~wssOpen =>
        LET p == closePhases[Len(closePhases)] IN
        /\ p.ws = ws
        /\ \A c \in ChannelIds : p.ws[c].terminated <= 1
        /\ p.clients = clients /\ clients = <<>>
        /\ p.pendingMessages = pendingMessages /\ pendingMessages = <<>>
        /\ clientSessionMap = <<>> => p.clientSessionMap = clientSessionMap
        /\ p.retryInterval = retryInterval /\ ~retryInterval
        /\ p.heartbeatInterval = heartbeatInterval /\ ~heartbeatInterval
        /\ p.wssOpen = wssOpen
        /\ \A c \in ChannelIds : removeClient(clients, c) = clients

\* C16 witness: after close(), a terminated transport has delivered its late
\* close event.
C16_Witness ==
    /\ ~wssOpen
    /\ clientSessionMap = <<>>
    /\ \E c \in ChannelIds : ws[c].terminated = 1 /\ ws[c].readyState = CLOSED

RemoveOnce ==
    \A c \in ChannelIds \cup {UnknownId} :
        LET r == removeClient(clients, c) IN
        /\ c \notin Registered => r = clients
        /\ DOMAIN r = Registered \ {c}
        /\ \A d \in DOMAIN r : r[d] = clients[d]
        /\ removeClient(r, c) = r

IsLateClose == \E c \in ChannelIds \ Registered : OnClose(c)

\* C17: removeClient is idempotent.  For an id that is absent or already
\* removed it leaves the registry exactly as it was, a second call after a
\* first changes nothing, and for a present id it removes that id only; the
\* close event of a transport whose channel is already gone (after its error
\* event, for one) leaves the registry as it was.
C17_RemoveIdempotent ==
    /\ []RemoveOnce
    /\ [][clients' = clients \/ ~IsLateClose]_vars

\* C17 witness: a transport has failed and then closed (its channel removed by
\* the first event) while another channel is still registered.
C17_Witness ==
    /\ Registered # {}
    /\ \E c \in ChannelIds \ Registered :
          ws[c].readyState = CLOSED /\ ws[c].terminated = 0

\* ------------------------------------------------- the URL shortener alone
\* UrlShortenerService over one UrlStorageService, with shortenUrl calls that
\* interleave at their awaits.
ShortenInit == Init /\ config = DEFAULT_RETRY_CONFIG

\* the proposal of a colliding attempt is drawn only when the loop goes round
NextProposals(i) ==
    IF exists(storage, calls[i].code) /\ calls[i].attempt < maxAttempts
    THEN Codes ELSE {0}

ShortenNext ==
    \/ \E i \in CallIds, url \in RequestUrls, proposal \in Codes :
          ShortenUrl(i, url, proposal)
    \/ \E i \in CallIds : \E proposal \in NextProposals(i) : ExistsAnswers(i, proposal)
    \/ \E i \in CallIds : StoreCompletes(i)

ShortenSpec == ShortenInit /\ [][ShortenNext]_vars

\* C18: shortenUrl calls made one after another return pairwise distinct
\* codes, whatever the generator proposes: a call that started after another
\* had returned never returns that call's code.
C18_SequentialUnique ==
    \A i \in CallIds, j \in CallIds :
        (/\ calls[i].pc \in {"store", "done"}
         /\ j \in calls[i].before) =>
            /\ calls[j].pc = "done"
            /\ calls[i].code # calls[j].code
            /\ exists(storage, calls[j].code)

\* C18 witness: a call made after another had returned first proposed that
\* call's code, was refused, and returned a different one.
C18_Witness ==
    \E i \in CallIds, j \in CallIds :
        /\ calls[i].pc = "done" /\ calls[j].pc = "done"
        /\ j \in calls[i].before
        /\ calls[i].collisions >= 1

\* C19 as claimed: for any interleaving of concurrent shortenUrl calls, no
\* two calls return the same code and no store overwrites a mapping stored by
\* another call.
C19_ConcurrentUnique ==
    \A i \in CallIds, j \in CallIds :
        (i # j /\ calls[i].pc = "done" /\ calls[j].pc = "done") =>
            /\ calls[i].code # calls[j].code
            /\ storage[calls[i].code] = i

\* C20: code generation makes at most maxAttempts (10) attempts.  A call
\* whose first k proposals were taken and whose next one was free returns
\* that proposal after exactly k + 1 exists calls, k <= 9; a call whose
\* proposals were all taken fails with URL003 after exactly 10 exists calls
\* and never calls store.
C20_BoundedGeneration ==
    \A i \in CallIds :
        LET c == calls[i] IN
        /\ c.existsCalls <= maxAttempts
        /\ c.pc = "exists" =>
              /\ c.attempt <= maxAttempts
              /\ c.existsCalls = c.attempt - 1
              /\ c.collisions = c.existsCalls
              /\ c.storeCalls = 0
        /\ c.pc \in {"store", "done"} =>
              /\ c.collisions <= maxAttempts - 1
              /\ c.existsCalls = c.collisions + 1
              /\ c.storeCalls = 1
        /\ c.pc = "failed" =>
              /\ c.existsCalls = maxAttempts
              /\ c.collisions = maxAttempts
              /\ c.storeCalls = 0
        /\ c.pc = "exists" =>
              \A proposal \in Codes :
                 LET r == generateUniqueCode(c, storage, proposal) IN
                 /\ ~exists(storage, c.code) =>
                       r.pc = "store" /\ r.code = c.code
                 /\ (exists(storage, c.code) /\ c.attempt < maxAttempts) =>
                       r.pc = "exists" /\ r.code = proposal
                 /\ (exists(storage, c.code) /\ c.attempt = maxAttempts) =>
                       r.pc = "failed"

\* C20 witness: one call returned a code on its tenth attempt after nine
\* collisions.
C20_Witness ==
    \E i \in CallIds :
        /\ calls[i].pc = "done"
        /\ calls[i].collisions = maxAttempts - 1
        /\ calls[i].existsCalls = maxAttempts

\* C21: POST /url answers with the success reply whenever validation and
\* shortenUrl succeed, whether or not a channel was resolved and whether or
\* not the first send succeeded, in every state the retry sweeps can leave
\* behind; a request that fails does so with its own error (URL001, URL003,
\* URL004), never because of a delivery.
C21_AcceptedWhateverDelivery ==
    \A s \in SessionIds \cup {NULL}, u \in Urls, t \in BOOLEAN :
        /\ LET h == ShortenUrlHandler(TRUE, "mapping", s, u, t) IN
           /\ h.reply = "accepted"
           /\ h.stats = getStats(h.delivery.clients, h.delivery.pendingMessages,
                                 clientSessionMap)
        /\ \A valid \in BOOLEAN, shortened \in ShortenOutcomes :
              LET h == ShortenUrlHandler(valid, shortened, s, u, t) IN
              h.reply # "accepted" =>
                 /\ ~valid \/ shortened # "mapping"
                 /\ h.reply = IF ~valid THEN "URL001" ELSE shortened
                 /\ ~h.delivery.called
                 /\ h.delivery.pendingMessages = pendingMessages

\* C21 witness: an earlier message was given up after a failed resend, and a
\* new request whose first send throws is accepted all the same.
C21_Witness ==
    /\ \E m \in MessageIds : msgLog[m].retired \in {"failed", "max"}
    /\ \E s \in SessionIds \cup {NULL}, u \in Urls :
          LET h == ShortenUrlHandler(TRUE, "mapping", s, u, TRUE) IN
          /\ h.reply = "accepted"
          /\ h.delivery.threw
    /\ \E s \in SessionIds, u \in Urls :
          LET h == ShortenUrlHandler(TRUE, "mapping", s, u, FALSE) IN
          /\ h.reply = "accepted"
          /\ ~h.messageSent

\* two retry sweeps in a row at times t1 <= t2, no transport send failing
TwoSweeps(t1, t2) ==
    LET first == processPendingMessages(clients, pendingMessages, {}, t1)
        second == processPendingMessages(first.clients, first.messages, {}, t2)
    IN [first |-> first, second |-> second]

SweepTimes == { now, now + DEFAULT_RETRY_CONFIG.checkInterval }

\* C22: with maxAttempts = 2 and retryDelay = 0, an unacknowledged entry sent
\* once to a channel that stays registered and OPEN is resent by the first
\* sweep (attempts becomes 2, an elapsed time of 0 counts as due) and removed
\* by the second, after which stats().pendingMessages is 0.
C22_TwoSweepsDrain ==
    (config.maxAttempts = 2 /\ config.retryDelay = 0) =>
        \A t1 \in SweepTimes, t2 \in SweepTimes :
            t1 <= t2 =>
                LET r == TwoSweeps(t1, t2) IN
                /\ \A i \in 1..Len(pendingMessages) :
                      (/\ pendingMessages[i].attempts = 1
                       /\ pendingMessages[i].clientId \in Sendable) =>
                          /\ \E k \in 1..Len(r.first.messages) :
                                /\ r.first.messages[k].id = pendingMessages[i].id
                                /\ r.first.messages[k].attempts = 2
                          /\ r.first.msgLog[pendingMessages[i].id].sendCalls
                               = msgLog[pendingMessages[i].id].sendCalls + 1
                          /\ pendingMessages[i].id \notin PendingIds(r.second.messages)
                /\ r.second.sent = {}
                /\ getStats(r.second.clients, r.second.messages,
                            clientSessionMap).pendingMessages = 0

\* C22 witness: under that configuration and without the clock moving, a
\* message was sent twice and then removed by a sweep, its channel still
\* registered and OPEN, and the ledger is empty.
C22_Witness ==
    /\ config.maxAttempts = 2 /\ config.retryDelay = 0
    /\ now = 0
    /\ Sendable # {}
    /\ Sendable = ChannelIds
    /\ \E m \in MessageIds : msgLog[m].retired = "max" /\ msgLog[m].sendCalls = 2
    /\ getStats(clients, pendingMessages, clientSessionMap).pendingMessages = 0

\* C23 as claimed: for every POST /url that succeeded with original URL u
\* (the URL the request schema hands to shortenUrl), the code in the
\* shortened URL resolves through GET /:code to exactly u;
\* GET for a well-formed code that was never stored answers URL002 with 404.
C23_RoundTrip ==
    /\ \A i \in CallIds :
          calls[i].pc = "done" =>
             GetUrlHandler(codeOf(shortenedUrlOf(calls[i].code)))
                = [status |-> 200, url |-> calls[i].url]
    /\ \A c \in Codes \ DOMAIN storage :
          GetUrlHandler(c) = [status |-> 404, errorCode |-> "URL002"]

\* C24 as claimed: every channel's transport is closed exactly once: a
\* channel that has left the registry without its transport having closed on
\* its own (eviction after a failed send or ping, an error event, shutdown)
\* has had its transport terminated by the registry, and no transport is
\* terminated twice.
C24_ClosedExactlyOnce ==
    \A c \in ChannelIds :
       /\ c \notin Registered /\ ws[c].readyState # CLOSED
             => ws[c].terminated = 1
       /\ ws[c].terminated <= 1

\* ---------------------------------------------------------------------------
\* The retry timer in real time: setInterval fires the sweep every
\* checkInterval milliseconds, so the clock reaches the next multiple of
\* checkInterval and the sweep runs at that time.  Deliveries are accepted
\* until DrainDeliverBy; the clock runs long enough after it for an entry to
\* use up all its attempts.  The configurations are those with the shortest
\* schedules: one attempt, no delay, and three attempts two sweeps apart.
DrainConfigs ==
    (RetryConfigs \ {DEFAULT_RETRY_CONFIG})
       \cup { [maxAttempts |-> 3, retryDelay |-> 10000, checkInterval |-> 5000] }

DrainDeliverBy == MaxTicks * DEFAULT_RETRY_CONFIG.checkInterval

DrainHorizon ==
    DrainDeliverBy + config.maxAttempts * (config.retryDelay + config.checkInterval)

\* (a channel the sweep has sent to has its activity refreshed at that time)
TimerFires(fail) ==
    /\ retryInterval
    /\ now + config.checkInterval <= DrainHorizon
    /\ now' = now + config.checkInterval
    /\ LET r == processPendingMessages(clients, pendingMessages, fail, now') IN
        /\ pendingMessages' = setPendingMessages(r.messages)
        /\ clients' = [c \in DOMAIN r.clients |->
                         IF c \in r.called
                         THEN [r.clients[c] EXCEPT !.lastActivity = now']
                         ELSE r.clients[c]]
        /\ msgLog' = r.msgLog
    /\ UNCHANGED <<urlVars, singleVars>>
    /\ UNCHANGED <<ws, heartbeatInterval, clientSessionMap, retryInterval, config,
                   wssOpen>>

SweepCanThrow ==
    { i \in 1..Len(pendingMessages) : pendingMessages[i].clientId \in Sendable }

DrainNext ==
    \/ Connect
    \/ \E clientId \in ChannelIds, shortenedUrl \in Urls :
          \E throws \in CanThrow(clientId) :
             /\ now <= DrainDeliverBy
             /\ DeliverToClient(clientId, shortenedUrl, throws)
    \/ \E clientId \in ChannelIds, m \in PendingIds(pendingMessages) :
          OnMessage(clientId, [text |-> "{type:ACKNOWLEDGMENT,messageId}",
                               messageId |-> m])
    \/ \E clientId \in ChannelIds : PeerCloses(clientId)
    \/ \E clientId \in ChannelIds : OnClose(clientId)
    \/ \E fail \in SUBSET SweepCanThrow : TimerFires(fail)
    \/ Shutdown

DrainInit ==
    /\ UrlInit
    /\ SingleInit
    /\ clients = <<>>
    /\ ws = <<>>
    /\ heartbeatInterval = TRUE
    /\ pendingMessages = <<>>
    /\ clientSessionMap = <<>>
    /\ retryInterval = TRUE
    /\ config \in DrainConfigs
    /\ wssOpen = TRUE
    /\ now = 0
    /\ msgLog = <<>>

DrainSpec ==
    /\ DrainInit
    /\ [][DrainNext]_vars
    /\ WF_vars(\E fail \in SUBSET SweepCanThrow : TimerFires(fail))

\* C25: the ledger drains.  While the retry timer fires every checkInterval,
\* every entry recorded in the ledger is eventually out of it, and an entry
\* leaves the ledger only by acknowledgment, by reaching maxAttempts, because
\* its channel has left the registry, by a failed resend, or at shutdown.
C25_LedgerDrains ==
    /\ [](\A m \in DOMAIN msgLog :
            /\ (m \in PendingIds(pendingMessages)) = (msgLog[m].retired = "")
            /\ msgLog[m].retired \in {"", "ack", "max", "gone", "failed", "shutdown"})
    /\ \A m \in 1..MaxMsgs :
          (m \in PendingIds(pendingMessages)) ~> (m \notin PendingIds(pendingMessages))

\* C25 witness: an entry has gone all the way to maxAttempts and was dropped
\* by a sweep, with more than one resend behind it
C25_Witness ==
    \E m \in DOMAIN msgLog :
       /\ msgLog[m].retired = "max"
       /\ msgLog[m].sendCalls = 3
       /\ m \notin PendingIds(pendingMessages)

\* ---------------------------------------------------------------------------
\* binding maps over two session ids, the inputs of associateSession
BindingMaps ==
    UNION { [S -> ChannelIds \cup {UnknownId}] : S \in SUBSET {"s1", "s2"} }

\* associateSession binds the session to the channel id it is given, registered
\* or not, leaves every other binding alone, keeps the count when the session
\* was bound already, and the binding is counted in activeSessions
AssociateOverwrites ==
    \A map \in BindingMaps \cup {clientSessionMap} :
       \A sessionId \in {"s1", "s2"}, clientId \in ChannelIds \cup {UnknownId} :
          LET after == associateSession(map, sessionId, clientId) IN
            /\ sessionId \in DOMAIN after /\ after[sessionId] = clientId
            /\ DOMAIN after = (DOMAIN map) \cup {sessionId}
            /\ \A s \in DOMAIN map : s # sessionId => after[s] = map[s]
            /\ getStats(clients, pendingMessages, after).activeSessions
                 = IF sessionId \in DOMAIN map
                   THEN getStats(clients, pendingMessages, map).activeSessions
                   ELSE getStats(clients, pendingMessages, map).activeSessions + 1

\* a step that is an associateSession call and nothing else
IsAssociateStep ==
    /\ \E sessionId \in SessionIds, clientId \in ChannelIds \cup {UnknownId} :
          clientSessionMap' = associateSession(clientSessionMap, sessionId, clientId)
    /\ UNCHANGED <<clients, ws, pendingMessages, msgLog, retryInterval, now>>

\* a step that is close()
IsShutdownStep ==
    /\ clientSessionMap' = <<>>
    /\ ~retryInterval' /\ ~heartbeatInterval' /\ ~wssOpen'

\* C26: recipient bindings change only through associateSession and shutdown.
\* Re-associating overwrites the channel id without changing the count, a
\* channel id that is not registered is accepted and counted in activeSessions,
\* and no other operation removes or alters a binding.
C26_BindingsFrame ==
    /\ []AssociateOverwrites
    /\ [][clientSessionMap' = clientSessionMap \/ IsAssociateStep \/ IsShutdownStep]_vars

\* C26 witness: a session is bound to a channel id that is not in the registry,
\* the binding is counted, and an entry has been retired by a sweep meanwhile
C26_Witness ==
    /\ \E s \in DOMAIN clientSessionMap : clientSessionMap[s] \notin Registered
    /\ getStats(clients, pendingMessages, clientSessionMap).activeSessions = 1
    /\ \E m \in DOMAIN msgLog : msgLog[m].retired \in {"gone", "failed", "max"}

\* ---------------------------------------------------------------------------
\* the entries of the ledger a sweep at time t has to leave alone
Waiting(t) ==
    { i \in 1..Len(pendingMessages) :
        /\ pendingMessages[i].attempts < config.maxAttempts
        /\ t - pendingMessages[i].lastAttempt < config.retryDelay }

\* where the entry with this id stands in a ledger (0: nowhere)
PositionOf(messages, id) ==
    IF \E k \in 1..Len(messages) : messages[k].id = id
    THEN CHOOSE k \in 1..Len(messages) : messages[k].id = id
    ELSE 0

\* what a sweep at t1, whatever its sends do, and a further sweep at t2 leave
SweepThenSweep(fail, t1, t2) ==
    LET first == processPendingMessages(clients, pendingMessages, fail, t1)
        second == processPendingMessages(first.clients, first.messages, {}, t2)
    IN [first |-> first, second |-> second]

\* C27: a sweep leaves every entry that is below maxAttempts and not yet due
\* exactly as it was (attempts, lastAttempt, payload), in the same order among
\* the entries it retains, and sends no frame for it; and so does a further
\* sweep that still finds it not due.
C27_NotYetDueUntouched ==
    \A fail \in SUBSET (1..Len(pendingMessages)) :
      \A t1 \in SweepTimes, t2 \in SweepTimes :
        t1 <= t2 =>
          LET r == SweepThenSweep(fail, t1, t2) IN
          /\ \A i \in Waiting(t1) :
                LET k == PositionOf(r.first.messages, pendingMessages[i].id) IN
                /\ k # 0 /\ r.first.messages[k] = pendingMessages[i]
                /\ pendingMessages[i].id \notin r.first.sent
                /\ r.first.msgLog[pendingMessages[i].id] = msgLog[pendingMessages[i].id]
                /\ \A j \in 1..Len(pendingMessages) :
                      LET kj == PositionOf(r.first.messages, pendingMessages[j].id) IN
                      (i < j /\ kj # 0) => k < kj
          /\ \A i \in Waiting(t1) \cap Waiting(t2) :
                LET k == PositionOf(r.second.messages, pendingMessages[i].id) IN
                /\ k # 0 /\ r.second.messages[k] = pendingMessages[i]
                /\ pendingMessages[i].id \notin r.second.sent

\* C27 witness: a sweep has resent one entry, which is therefore not yet due
\* for the sweeps that follow, and the ledger holds another entry after it
C27_Witness ==
    /\ Len(pendingMessages) = 2
    /\ 1 \in Waiting(now)
    /\ pendingMessages[1].attempts = 2
    /\ msgLog[pendingMessages[1].id].sendCalls = 2
    /\ retryInterval

\* ---------------------------------------------------------------------------
\* a sweep at time t as it stands when the first n entries have had their turn
SweepUpTo(n, fail, t) ==
    processPendingMessages(clients, SubSeq(pendingMessages, 1, n), fail, t)

\* the entries below maxAttempts that are due at time t
DueBelowMax(t) ==
    { i \in 1..Len(pendingMessages) :
        /\ pendingMessages[i].attempts < config.maxAttempts
        /\ t - pendingMessages[i].lastAttempt >= config.retryDelay }

\* those whose channel is registered when their turn comes in the sweep
Resent(fail, t) ==
    { i \in DueBelowMax(t) :
        pendingMessages[i].clientId \in DOMAIN SweepUpTo(i - 1, fail, t).clients }

\* what the sweep does with entry i: one call of the registry's send with the
\* entry's id and payload, then the entry kept with one more attempt when the
\* send succeeds and dropped when it does not
ResentOnce(i, fail, t, success) ==
    LET msg == pendingMessages[i]
        before == SweepUpTo(i - 1, fail, t)
        after == SweepUpTo(i, fail, t)
        whole == SweepUpTo(Len(pendingMessages), fail, t)
    IN /\ after.frames =
            Append(before.frames,
                   [clientId |-> msg.clientId,
                    message |-> [type |-> "URL_SHORTENED", messageId |-> msg.id,
                                 data |-> msg.data]])
       /\ Cardinality({ k \in 1..Len(whole.frames) :
                          whole.frames[k].message.messageId = msg.id }) = 1
       /\ success =>
             after.messages =
                Append(before.messages,
                       [msg EXCEPT !.attempts = msg.attempts + 1, !.lastAttempt = t])
       /\ ~success =>
             /\ after.messages = before.messages
             /\ PositionOf(whole.messages, msg.id) = 0

\* C28 as claimed: for a due entry below maxAttempts whose channel is
\* registered, the sweep calls the registry's send exactly once, with a
\* URL_SHORTENED frame that carries the entry's message id and payload; when
\* the send returns true the entry is kept with attempts one higher and
\* lastAttempt the sweep time, and when it returns false the entry is dropped.
C28_AsClaimed ==
    \A fail \in SUBSET (1..Len(pendingMessages)), t \in SweepTimes :
       \A i \in Resent(fail, t) :
          ResentOnce(i, fail, t,
                     ws[pendingMessages[i].clientId].readyState = OPEN /\ i \notin fail)

\* C28 amended: for a due entry below maxAttempts whose channel is registered
\* with an OPEN transport (hasClient), the sweep calls the registry's send
\* exactly once, with a URL_SHORTENED frame that carries the entry's message id
\* and payload; true keeps the entry with attempts one higher and lastAttempt
\* the sweep time, false (the transport send threw) drops it.  A due entry
\* whose channel is registered but not OPEN is dropped without any call of the
\* registry's send.
C28_DueEntryResent ==
    \A fail \in SUBSET (1..Len(pendingMessages)), t \in SweepTimes :
       \A i \in Resent(fail, t) :
          IF ws[pendingMessages[i].clientId].readyState = OPEN
          THEN ResentOnce(i, fail, t, i \notin fail)
          ELSE /\ SweepUpTo(i, fail, t).frames = SweepUpTo(i - 1, fail, t).frames
               /\ SweepUpTo(i, fail, t).messages = SweepUpTo(i - 1, fail, t).messages

\* C28 witness: sweeps have resent one entry, now at attempts 2 with
\* lastAttempt the sweep's time, and dropped another whose resend failed
C28_Witness ==
    /\ \E i \in 1..Len(pendingMessages) :
          /\ pendingMessages[i].attempts = 2
          /\ pendingMessages[i].lastAttempt = now
          /\ now > 0
          /\ msgLog[pendingMessages[i].id].sendCalls = 2
    /\ \E m \in DOMAIN msgLog : msgLog[m].retired = "failed"

\* ---------------------------------------------------------------------------
\* The retry timer with requests arriving between two sweeps: the clock moves
\* by half a checkInterval, and the sweep runs whenever the clock reaches a
\* multiple of checkInterval.
LatencyStep == DEFAULT_RETRY_CONFIG.checkInterval \div 2

ClockAdvances(fail) ==
    /\ retryInterval
    /\ now + LatencyStep <= DrainHorizon
    /\ now' = now + LatencyStep
    /\ IF now' % config.checkInterval = 0
       THEN LET r == processPendingMessages(clients, pendingMessages, fail, now') IN
              /\ pendingMessages' = setPendingMessages(r.messages)
              /\ clients' = [c \in DOMAIN r.clients |->
                               IF c \in r.called
                               THEN [r.clients[c] EXCEPT !.lastActivity = now']
                               ELSE r.clients[c]]
              /\ msgLog' = r.msgLog
       ELSE /\ fail = {}
            /\ UNCHANGED <<pendingMessages, clients, msgLog>>
    /\ UNCHANGED <<urlVars, singleVars>>
    /\ UNCHANGED <<ws, heartbeatInterval, clientSessionMap, retryInterval, config,
                   wssOpen>>

LatencyNext ==
    \/ Connect
    \/ \E clientId \in ChannelIds, shortenedUrl \in Urls :
          \E throws \in CanThrow(clientId) :
             /\ now <= DrainDeliverBy
             /\ DeliverToClient(clientId, shortenedUrl, throws)
    \/ \E clientId \in ChannelIds, m \in PendingIds(pendingMessages) :
          OnMessage(clientId, [text |-> "{type:ACKNOWLEDGMENT,messageId}",
                               messageId |-> m])
    \/ \E clientId \in ChannelIds : PeerCloses(clientId)
    \/ \E clientId \in ChannelIds : OnClose(clientId)
    \/ \E fail \in SUBSET SweepCanThrow : ClockAdvances(fail)
    \/ Shutdown

LatencySpec == DrainInit /\ [][LatencyNext]_vars

\* the times up to now at which the retry timer has fired
SweepsSoFar ==
    { k * config.checkInterval : k \in 1..(now \div config.checkInterval) }

\* the pending entries a sweep would resend: below maxAttempts, their channel
\* registered and OPEN
Resendable ==
    { i \in 1..Len(pendingMessages) :
        /\ pendingMessages[i].attempts < config.maxAttempts
        /\ pendingMessages[i].clientId \in Sendable }

\* C29: bounded resend latency.  While the retry timer runs, an entry below
\* maxAttempts whose channel is registered and OPEN has been resent by the
\* first sweep at or after lastAttempt + retryDelay: no sweep later than its
\* last send has found it due and left it, so the time since its last send
\* never exceeds retryDelay + checkInterval.
C29_BoundedLatency ==
    retryInterval =>
       \A i \in Resendable :
          LET msg == pendingMessages[i] IN
          /\ ~ \E g \in SweepsSoFar :
                  g > msg.lastAttempt /\ g >= msg.lastAttempt + config.retryDelay
          /\ now - msg.lastAttempt <= config.retryDelay + config.checkInterval

\* C29 witness: an entry sent between two sweeps has reached its retry delay
\* and waits for the next sweep, its channel registered and OPEN, while
\* another entry has been resent already
C29_Witness ==
    /\ retryInterval /\ config.retryDelay > 0
    /\ \E i \in Resendable :
          /\ pendingMessages[i].lastAttempt % config.checkInterval # 0
          /\ now - pendingMessages[i].lastAttempt >= config.retryDelay
    /\ \E j \in 1..Len(pendingMessages) : pendingMessages[j].attempts = 2

\* ---------------------------------------------------------------------------
\* a sweep at time t sends no entry earlier than retryDelay after its
\* lastAttempt, sets lastAttempt to t for the entries it has resent, and
\* leaves the lastAttempt of every other entry it keeps as it was
SweepKeepsSendTimes ==
    \A fail \in SUBSET (1..Len(pendingMessages)), t \in SweepTimes :
       LET r == processPendingMessages(clients, pendingMessages, fail, t) IN
       \A i \in 1..Len(pendingMessages) :
          LET msg == pendingMessages[i]
              k == PositionOf(r.messages, msg.id)
          IN /\ msg.id \in r.sent => t - msg.lastAttempt >= config.retryDelay
             /\ k # 0 =>
                   r.messages[k].lastAttempt =
                      IF msg.id \in r.sent THEN t ELSE msg.lastAttempt
             /\ (k # 0 /\ msg.id \in r.sent) => i \notin fail

\* what a first send leaves: the new entry, and whether its send succeeded
FirstSends ==
    { sendShortenedUrl(clients, pendingMessages, clientId, shortenedUrl, throws) :
        clientId \in Sendable, shortenedUrl \in Urls, throws \in BOOLEAN }

\* C30 as claimed: two consecutive sends of one message id are at least
\* retryDelay apart: no sweep resends an entry earlier than retryDelay after
\* its lastAttempt, and lastAttempt always is the time of the most recent
\* successful send of the entry.
C30_AsClaimed ==
    /\ SweepKeepsSendTimes
    /\ \A r \in FirstSends :
          LET k == PositionOf(r.pendingMessages, r.messageId) IN
          k # 0 => r.pendingMessages[k].lastAttempt = now /\ r.success

\* C30 amended: two consecutive sends of one message id are at least
\* retryDelay apart: no sweep resends an entry earlier than retryDelay after
\* its lastAttempt, and lastAttempt is the time of the entry's first send,
\* whether that send succeeded or not, until a resend succeeds, and from then
\* on the time of its most recent successful resend.
C30_SendsSpaced ==
    /\ SweepKeepsSendTimes
    /\ \A r \in FirstSends :
          LET k == PositionOf(r.pendingMessages, r.messageId) IN
          /\ k # 0
          /\ r.pendingMessages[k].lastAttempt = now
          /\ r.pendingMessages[k].attempts = 1

\* C30 witness: one entry has been resent by a sweep after the clock moved,
\* and another is in the ledger whose only send has failed (its channel was
\* evicted with the transport still OPEN)
C30_Witness ==
    /\ \E i \in 1..Len(pendingMessages) :
          /\ pendingMessages[i].attempts = 2
          /\ pendingMessages[i].lastAttempt = now /\ now >= config.retryDelay
          /\ config.retryDelay > 0
    /\ \E j \in 1..Len(pendingMessages) :
          /\ pendingMessages[j].attempts = 1
          /\ msgLog[pendingMessages[j].id].sendCalls = 1
          /\ pendingMessages[j].clientId \notin Registered
          /\ ws[pendingMessages[j].clientId].readyState = OPEN

\* ---------------------------------------------------------------------------
\* C31: record-before-send.  The ledger entry of a message is pushed before
\* its first transport send, in the same uninterrupted call: when the send is
\* made the entry is in the ledger, so every message a transport send has been
\* made for is in the ledger or has been retired, and an acknowledgment
\* processed for it leaves no entry of it pending.
C31_RecordBeforeSend ==
    /\ \A c \in Sendable, u \in Urls, t \in BOOLEAN :
          LET steps == sendShortenedUrlSteps(clients, pendingMessages, c, u, t)
              r == sendShortenedUrl(clients, pendingMessages, c, u, t)
          IN /\ r.messageId \in PendingIds(steps[1].pendingMessages)
             /\ steps[1].msgLog[r.messageId].sendCalls = 0
             /\ steps[1].clients = clients
             /\ steps[2].pendingMessages = r.pendingMessages
             /\ steps[2].msgLog = r.msgLog
             /\ steps[2].clients = r.clients
             /\ r.called
    /\ \A m \in MessageIds :
          /\ m \in PendingIds(pendingMessages) \/ msgLog[m].retired # ""
          /\ \A c \in ChannelIds :
                ws[c].readyState = OPEN =>
                   m \notin PendingIds(onMessage(c, AckFrame(m)).pendingMessages)

\* C31 witness: the acknowledgment of a message came back before the clock
\* moved and before any resend, and retired it, while another entry is pending
C31_Witness ==
    /\ now = 0
    /\ \E m \in MessageIds : msgLog[m].retired = "ack" /\ msgLog[m].sendCalls = 1
    /\ \E m \in MessageIds : m \in PendingIds(pendingMessages)

\* ---------------------------------------------------------------------------
\* the channel id recorded in the ledger entry of message id
RecordedChannel(id) ==
    pendingMessages[PositionOf(pendingMessages, id)].clientId

\* C32: a frame for a message is only ever sent to the channel id recorded in
\* its ledger entry at deliver time.  Every call a sweep makes goes to the
\* recorded channel, an entry whose channel has left the registry is never
\* sent, whatever other channels are registered or bound to sessions, and no
\* step changes the channel id, the payload or the id of an entry it keeps.
C32_RecordedChannelOnly ==
    /\ [](\A fail \in SUBSET (1..Len(pendingMessages)), t \in SweepTimes :
            LET r == processPendingMessages(clients, pendingMessages, fail, t) IN
            /\ \A k \in 1..Len(r.frames) :
                  r.frames[k].clientId = RecordedChannel(r.frames[k].message.messageId)
            /\ r.called \subseteq { pendingMessages[i].clientId :
                                      i \in 1..Len(pendingMessages) } \cap Sendable
            /\ \A i \in 1..Len(pendingMessages) :
                  pendingMessages[i].clientId \notin Registered =>
                     /\ pendingMessages[i].id \notin r.sent
                     /\ r.msgLog[pendingMessages[i].id].sendCalls
                          = msgLog[pendingMessages[i].id].sendCalls
                     /\ \A k \in 1..Len(r.frames) :
                           r.frames[k].message.messageId # pendingMessages[i].id)
    /\ [][\A i \in 1..Len(pendingMessages) :
             LET k == PositionOf(pendingMessages', pendingMessages[i].id) IN
             k # 0 =>
                /\ pendingMessages'[k].clientId = pendingMessages[i].clientId
                /\ pendingMessages'[k].data = pendingMessages[i].data]_vars

\* C32 witness: the channel of a pending entry has been destroyed, a channel
\* opened later is registered and OPEN and the session is bound to it, and a
\* sweep has already dropped another entry because its channel was gone
C32_Witness ==
    /\ \E i \in 1..Len(pendingMessages) :
          /\ pendingMessages[i].clientId \notin Registered
          /\ ws[pendingMessages[i].clientId].readyState = CLOSED
          /\ \E c \in Sendable :
                /\ c > pendingMessages[i].clientId
                /\ "s1" \in DOMAIN clientSessionMap /\ clientSessionMap["s1"] = c
    /\ \E m \in MessageIds : msgLog[m].retired = "gone" /\ msgLog[m].sendCalls = 1

\* ---------------------------------------------------------------------------
\* UrlShortenerService over a storage service whose calls can reject.
\* generateUniqueCode and shortenUrl have no try/catch: the rejection of the
\* awaited exists(code) or store(mapping) leaves the call at once.

\* mutant: a rejected store is tried once more before the error leaves
storeThrows_retry(call) ==
    [call EXCEPT !.storeCalls = @ + 1, !.pc = "storeThrew"]

\* the awaited exists(code) rejects
existsThrows(call) ==
    [call EXCEPT !.existsCalls = @ + 1, !.pc = "existsThrew"]

\* the awaited store(mapping) rejects
storeThrows(call) ==
    [call EXCEPT !.pc = "storeThrew"]

ExistsThrows(i) ==
    /\ calls[i].pc = "exists"
    /\ calls' = [calls EXCEPT ![i] = existsThrows(calls[i])]
    /\ UNCHANGED storage
    /\ UNCHANGED <<deliveryVars, singleVars>>

StoreThrows(i) ==
    /\ calls[i].pc = "store"
    /\ calls' = [calls EXCEPT ![i] = storeThrows(calls[i])]
    /\ UNCHANGED storage
    /\ UNCHANGED <<deliveryVars, singleVars>>

FailingStorageNext ==
    \/ \E i \in CallIds, url \in RequestUrls, proposal \in Codes :
          ShortenUrl(i, url, proposal)
    \/ \E i \in CallIds : \E proposal \in NextProposals(i) : ExistsAnswers(i, proposal)
    \/ \E i \in CallIds : StoreCompletes(i)
    \/ \E i \in CallIds : ExistsThrows(i)
    \/ \E i \in CallIds : StoreThrows(i)

FailingStorageSpec == ShortenInit /\ [][FailingStorageNext]_vars

\* C33: a failure raised by exists aborts shortenUrl at once: the failing call
\* is the last exists call, no further code is proposed and store is never
\* called; a failure raised by store leaves shortenUrl after exactly one store
\* call, with nothing stored for the call.  The aborted call does nothing more.
C33_StorageFailurePropagates ==
    /\ [](\A i \in CallIds :
            /\ calls[i].pc = "existsThrew" =>
                  /\ calls[i].existsCalls = calls[i].attempt
                  /\ calls[i].collisions = calls[i].attempt - 1
                  /\ calls[i].storeCalls = 0
            /\ calls[i].pc = "storeThrew" => calls[i].storeCalls = 1
            /\ calls[i].pc \in {"existsThrew", "storeThrew"} =>
                  \A c \in DOMAIN storage : storage[c] # i)
    /\ [][\A i \in CallIds :
             /\ calls[i].pc \in {"existsThrew", "storeThrew"} => calls'[i] = calls[i]
             /\ calls'[i].pc = "existsThrew" /\ calls[i].pc # "existsThrew" =>
                   /\ calls[i].pc = "exists"
                   /\ calls'[i].code = calls[i].code
                   /\ calls'[i].attempt = calls[i].attempt
                   /\ calls'[i].existsCalls = calls[i].existsCalls + 1
                   /\ storage' = storage
             /\ calls'[i].pc = "storeThrew" /\ calls[i].pc # "storeThrew" =>
                   /\ calls[i].pc = "store"
                   /\ calls'[i].existsCalls = calls[i].existsCalls
                   /\ storage' = storage]_vars

\* C33 witness: one call was aborted by its first exists call and another by
\* its store call, and nothing has been stored
C33_Witness ==
    /\ \E i \in CallIds :
          /\ calls[i].pc = "existsThrew"
          /\ calls[i].existsCalls = 1 /\ calls[i].storeCalls = 0
    /\ \E j \in CallIds : calls[j].pc = "storeThrew" /\ calls[j].storeCalls = 1
    /\ storage = <<>>

\* ---------------------------------------------------------------------------
\* the service is constructed with the default retry configuration
SingleStart == Init /\ config = DEFAULT_RETRY_CONFIG

SingleSpec == SingleStart /\ [][SingleNext]_vars

\* C34: the single-client manager has at most one current client.  Every
\* transport other than the current one has been closed by the manager or has
\* closed itself (none is still OPEN), a new connection closes the previous
\* client once and becomes current, and the close event of a transport that is
\* not the current client leaves the current client as it is.
C34_OneCurrentClient ==
    /\ single.currentClient \in {NoClient} \cup SingleSocketIds
    /\ \A c \in SingleSocketIds :
          c # single.currentClient => single.sockets[c].readyState # OPEN
    /\ single.retryInterval /\ single.currentClient # NoClient =>
          single.currentClient = Len(single.sockets)
    /\ LET after == singleConnection(single) IN
          /\ after.currentClient = Len(single.sockets) + 1
          /\ after.sockets[after.currentClient].readyState = OPEN
          /\ single.currentClient # NoClient =>
                /\ after.sockets[single.currentClient].closeCalls
                     = single.sockets[single.currentClient].closeCalls + 1
                /\ after.sockets[single.currentClient].readyState # OPEN
    /\ \A c \in SingleSocketIds :
          c # single.currentClient =>
             singleOnClose(single, c).currentClient = single.currentClient

\* C34 witness: a second connection has replaced the first, the late close
\* event of the first has been delivered, and the second is still current
C34_Witness ==
    /\ Len(single.sockets) = 2
    /\ single.currentClient = 2
    /\ single.sockets[1].readyState = CLOSED /\ single.sockets[1].closeCalls = 1
    /\ single.sockets[2].readyState = OPEN

\* C35 as claimed: in the single-client manager a message is retried at most
\* 5 times: the transport send calls made for one message id, the first send
\* and the resends, those whose send throws included, never exceed 5; and an
\* unacknowledged message whose 5 sends have been made leaves the pending list.
C35_AtMostFiveSends ==
    \A m \in DOMAIN single.sendCalls :
       single.sendCalls[m] <= DEFAULT_RETRY_CONFIG.maxAttempts

\* C36: an acknowledgment is matched on the message id alone.  An
\* ACKNOWLEDGMENT frame that carries the id of a pending message removes that
\* entry whatever transport it arrives on: the transport of another channel
\* than the one the message is pending for, or one whose channel has already
\* been unregistered.  The other entries stay.
C36_AckMatchedOnIdAlone ==
    \A c \in ChannelIds, m \in PendingIds(pendingMessages) :
        ws[c].readyState = OPEN =>
           LET r == onMessage(c, AckFrame(m)) IN
           /\ m \notin PendingIds(r.pendingMessages)
           /\ r.msgLog[m].retired = "ack"
           /\ OthersKept(pendingMessages, r.pendingMessages, m)
           /\ ~r.caught /\ ~r.raised

\* C36 witness: a message is pending for a registered channel while another
\* channel, unregistered with its transport still open, can send the
\* acknowledgment
C36_Witness ==
    \E i \in 1..Len(pendingMessages), b \in ChannelIds :
        /\ pendingMessages[i].clientId \in Registered
        /\ b # pendingMessages[i].clientId
        /\ b \notin Registered
        /\ ws[b].readyState = OPEN

\* C37 as claimed: with a null recipient binding, sendShortenedUrlToSession
\* delivers to a registered channel whose transport is OPEN and returns true
\* whenever at least one registered channel has an OPEN transport, also when
\* the earliest-registered channel is no longer OPEN and not yet evicted.
C37_NullBindingFindsOpenChannel ==
    (\E c \in Registered : ws[c].readyState = OPEN) =>
       \A u \in Urls : \A t \in CanThrow(resolveClient(NULL)) :
          LET r == sendShortenedUrlToSession(NULL, u, t) IN
          /\ r.result
          /\ r.clientId \in Registered
          /\ ws[r.clientId].readyState = OPEN
          /\ r.called

\* the entry of id m leaves the ledger in this step
Leaves(m) ==
    m \in PendingIds(pendingMessages) /\ m \notin PendingIds(pendingMessages')

\* the step is the 'message' listener handling the acknowledgment of m
IsAcknowledgmentOf(m) ==
    \E c \in ChannelIds : OnMessage(c, AckFrame(m))

\* the step is a retry sweep in which a drop rule applies to the entry of m:
\* its attempts are exhausted, or it is due and its channel is no longer
\* registered with an OPEN transport when the sweep ends (gone before the
\* sweep, or evicted by a failed resend of the sweep)
IsSweepDropOf(m) ==
    /\ \E fail \in SUBSET DueIndexes : RetrySweep(fail)
    /\ LET msg == pendingMessages[PositionOf(pendingMessages, m)] IN
          \/ attemptsExhausted(msg)
          \/ /\ ~notYetDue(msg, now)
             /\ ~hasClient(clients', msg.clientId)
    /\ msgLog'[m].retired \in {"max", "gone", "failed"}

\* C38: no entry is lost through the sweep's write-back.  In every step an
\* entry leaves the ledger only by its own acknowledgment, by a drop rule of a
\* sweep applied to that entry (max attempts, channel gone, failed resend) or
\* by shutdown; a sweep writes back every entry it read that no drop rule
\* applies to, in order; and every message recorded so far is in the ledger
\* or has left it for one of these reasons.
C38_NoEntryLost ==
    /\ [](\A m \in MessageIds :
            \/ m \in PendingIds(pendingMessages)
            \/ msgLog[m].retired \in {"ack", "max", "gone", "failed", "shutdown"})
    /\ [][ /\ \A m \in MessageIds :
               Leaves(m) =>
                  \/ IsAcknowledgmentOf(m) /\ msgLog'[m].retired = "ack"
                  \/ IsSweepDropOf(m)
                  \/ IsShutdownStep /\ msgLog'[m].retired = "shutdown"
           /\ \A fail \in SUBSET DueIndexes :
                RetrySweep(fail) =>
                   /\ Len(msgLog') = Len(msgLog)
                   /\ \A i \in 1..Len(pendingMessages) :
                         notYetDue(pendingMessages[i], now)
                         /\ ~attemptsExhausted(pendingMessages[i]) =>
                            pendingMessages[i] \in
                               { pendingMessages'[k] : k \in 1..Len(pendingMessages') }
         ]_vars

\* C38 witness: a sweep has dropped one message under a drop rule while
\* another, resent by a sweep, is still in the ledger
C38_Witness ==
    /\ \E m \in MessageIds : msgLog[m].retired \in {"max", "gone", "failed"}
    /\ \E i \in 1..Len(pendingMessages) : pendingMessages[i].attempts >= 2
    /\ retryInterval

\* what the listeners of the transport of channel c can leave in the registry:
\* 'message' with any frame, 'pong', 'close' and 'error'
ListenerOutcomes(c) ==
    { onMessage(c, raw).clients :
        raw \in RawFrames \cup { AckFrame(m) : m \in MessageIds } }
    \cup { updateClientActivity(clients, c, now), removeClient(clients, c) }

\* the step is an event delivered on the transport of channel c
IsListenerStep(c) ==
    \/ \E raw \in RawFrames \cup { AckFrame(m) : m \in MessageIds } :
          OnMessage(c, raw)
    \/ OnPong(c)
    \/ OnClose(c)
    \/ OnError(c)

\* the step is a new connection: addClient registers the next channel id
IsConnectStep ==
    /\ Len(ws') = Len(ws) + 1
    /\ Registered' = Registered \cup {Len(ws')}
    /\ \A c \in Registered : clients'[c] = clients[c]

\* C39: only a new connection adds a registry entry.  A message, pong, close
\* or error event on a transport whose channel is no longer registered leaves
\* the registry unchanged, and such an event on any transport leaves every
\* other channel's entry as it was.
C39_OnlyConnectRegisters ==
    /\ [](\A c \in ChannelIds : \A r \in ListenerOutcomes(c) :
            /\ c \notin Registered => r = clients
            /\ DOMAIN r \subseteq Registered
            /\ \A d \in Registered \ {c} : d \in DOMAIN r /\ r[d] = clients[d])
    /\ [][ /\ Registered' \subseteq Registered \/ IsConnectStep
           /\ \A c \in ChannelIds \ Registered :
                 IsListenerStep(c) => clients' = clients ]_vars

\* C39 witness: a channel was evicted by a failed send, so that its transport
\* is still open and its listeners can still fire, while another channel is
\* registered with an older activity time
C39_Witness ==
    \E c \in ChannelIds \ Registered :
        /\ ws[c].readyState = OPEN /\ ws[c].terminated = 0
        /\ \E d \in Registered : clients[d].lastActivity < now

====
